---- MODULE Spec2Model ----
(***************************************************************************)
(* A model of FBXReader::extractFBXGeometry                                *)
(* (src/libraries/fbx/src/FBXReader.cpp): the connection maps, the          *)
(* model-ordering pass, the joint array, the binding of a mesh to its       *)
(* clusters, and the accumulation and normalisation of skin weights.        *)
(*                                                                          *)
(* Object IDs are QStrings in the code.  Here they are integers whose       *)
(* order is the lexicographic order of the strings; NullID is the null      *)
(* QString that QMap::value returns for a key that is not in the map.       *)
(* Indices (parentIndex, jointIndex, freeLineage) keep the code's 0-based   *)
(* values, -1 included; a QVector v is a sequence, v.at(i) is v[i + 1].     *)
(***************************************************************************)
EXTENDS Integers, Sequences, FiniteSets, Bags, TLC

\* ---------------------------------------------------------------- bounds
\* Model objects in the file (their IDs are 1..NumModels).
NumModels == 3
\* Connections between models (and the scene root) in a file without a mesh.
MaxConn == 2
\* Connections between models (and the scene root) in a file with a mesh.
MaxMeshConn == 1
\* Skin clusters of the multi-cluster mesh.
NumClusters == 5
\* Largest cluster weight, in units of 1/4 (0.25f): exact in float.
MaxWeight == 3
\* extracted.mesh.vertices.size() of the multi-cluster mesh.
NumVertices == 3
\* Calls of extractFBXGeometry, one after the other.
MaxRuns == 2
\* Calls of convertRotationToXYZ with an unhandled order in one run.
MaxUnhandled == 3
\* Points collected for one joint.
MaxPoints == 2
\* The connections of a file with blendshapes.
MaxBlendConn == 3
\* NodeAttribute objects of a file.
NumAttributes == 2
\* Key values of an AnimationCurve.
MaxKeys == 3
\* Nodes of the file read in one run.
MaxNodes == 3
\* properties.size() of a child of a Properties node.
MaxValues == 5

\* ------------------------------------------------------ program constants
\* FLT_MAX, in units of the spacing of the floats of the points: larger
\* than any projection.
FLT_MAX == 1000000
WEIGHTS_PER_VERTEX == 4
UINT16_MAX == 65535
\* ALMOST_HALF = 0.499f, in thousandths.
ALMOST_HALF == 499

\* ------------------------------------------------------------ object IDs
NullID == 0
Models == 1..NumModels
\* The scene root ("0" in a file): a connection target that is not a Model.
Scene == NumModels + 1
\* A Geometry object of subtype Mesh.
Geo == NumModels + 2
\* A Deformer of subtype Skin, and a Deformer of subtype Cluster.
SkinDeformer == NumModels + 3
ClusterObj == NumModels + 4
AllIDs == NullID..ClusterObj

VARIABLES
    conns,                  \* the Connections block: <<childID, parentID>>, in file order
    meshes,                 \* keys of `meshes`
    clusters,               \* keys of `clusters`
    _connectionParentMap,   \* QMultiMap childID -> parentIDs, most recent first
    _connectionChildMap,    \* QMultiMap parentID -> childIDs, most recent first
    models,                 \* QHash modelID -> FBXModel (its parentIndex)
    remainingModels,        \* QSet
    modelIDs,               \* QVector
    rounds,                 \* rounds of the while loop run so far
    topID,                  \* getTopModelID's topID
    visitedNodes,           \* getTopModelID's visitedNodes
    joints,                 \* geometry.joints
    modelID,                \* the mesh's owning model, in the loop over meshes
    mixamoHack,             \* geometry.applicationName == "mixamo.com"
    nodeID,                 \* getGlobalTransform's nodeID
    globalVisited,          \* getGlobalTransform's visitedNodes
    clusterIDs,             \* the clusters found for the mesh
    meshClusters,           \* extracted.mesh.clusters (each cluster's jointIndex)
    pc,                     \* where extractFBXGeometry is
    weightAccumulators,     \* per new vertex, WEIGHTS_PER_VERTEX floats (units of 1/4)
    clusterIndices,         \* extracted.mesh.clusterIndices, per new vertex
    clusterWeights,         \* extracted.mesh.clusterWeights, per new vertex
    delivered,              \* the (cluster, oldIndex, weight) entries read so far
    skinCluster,            \* i of the loop over clusterIDs
    skinPc,                 \* where the multi-cluster branch is
    mapping,                \* mapping.value("joint").toHash(): key -> value
    modelObjects,           \* the Model objects of the file: ID and name, in file order
    jointIDs,               \* jointEyeLeftID ... jointRightToeID
    humanIKJointIDs,        \* QVector<QString>
    geometry,               \* the special-joint indices of the FBXGeometry
    haveReportedUnhandledRotationOrder,     \* the global flag
    warnings,               \* "Unhandled rotation order" lines logged in this run
    unhandled,              \* convertRotationToXYZ calls of this run with such an order
    ordersUsed,             \* the orders given to convertRotationToXYZ for this Model
    model,                  \* the FBXModel made from the Model object read last
    runs,                   \* calls of extractFBXGeometry so far
    local,                  \* the locals of the Model branch: translation ... geometricScaling
    property,               \* the child of a Properties node that was read last
    readPc,                 \* where the reading of the Objects is
    tables,                 \* per table of extractFBXGeometry, the items inserted so far
    node,                   \* the node that was read last
    nodesRead,              \* nodes read so far
    nodePc,                 \* the node whose children are being read
    shapeVertices,          \* per joint, the joint-frame points collected for it
    shapeInfo,              \* per joint, joint.shapeInfo: avgPoint, points, dots
    shapeJoint,             \* i of the loop that computes the shapes
    shapePc,                \* where that loop is
    blendShape,             \* the blendshape whose tangents are computed
    reverseIndices,         \* its lookup from mesh index to blendshape index
    accessed,               \* what the vertex accessor gave for the last edge
    tangentPc,              \* where _createBlendShapeTangents is
    conversion,             \* the last call of convertRotationToXYZ: its arguments and its result
    blendFile,              \* the objects and connections of a file with blendshapes
    extractedMeshes,        \* keys of `meshes` in that reading
    geometryMeshes,         \* geometry.meshes: the key each mesh was extracted under
    assignPc,               \* where that reading is
    attributes,             \* typeFlags and the children of the models of a file with NodeAttributes
    skeletonJoints,         \* isSkeletonJoint of each joint, with whether it was assigned
    hasSkeletonJoints,      \* geometry.hasSkeletonJoints
    skeletonPc,             \* where that reading is
    animationCurves,        \* values.size() of each AnimationCurve object, 0 for no such object
    animated,               \* the modelIDs of that reading
    animationFrames,        \* geometry.animationFrames
    curveReads,             \* the values.at() calls made so far: size and index
    animationPc,            \* where that reading is
    jointNames,             \* model.name of the ordered models, in order
    namedJoints,            \* joint.name of geometry.joints
    jointIndices,           \* geometry.jointIndices, as <<name, value>> pairs
    indexPc                 \* where that reading is

extractVars == <<conns, meshes, clusters, _connectionParentMap, _connectionChildMap,
                 models, remainingModels, modelIDs, rounds, topID,
                 visitedNodes, joints, modelID, mixamoHack, nodeID, globalVisited,
                 clusterIDs, meshClusters, pc>>
skinVars == <<weightAccumulators, clusterIndices, clusterWeights, delivered,
              skinCluster, skinPc>>
readVars == <<mapping, modelObjects, jointIDs, humanIKJointIDs>>
\* The reading of the properties of the Model objects.
propVars == <<haveReportedUnhandledRotationOrder, warnings, unhandled, ordersUsed,
              model, runs,
              local, property, readPc>>
\* The reading of the nodes of the file.
nodeVars == <<tables, node, nodesRead, nodePc>>
\* The computation of the shapes of the joints.
shapeVars == <<shapeVertices, shapeInfo, shapeJoint, shapePc>>
\* The computation of the tangents of a blendshape.
tangentVars == <<blendShape, reverseIndices, accessed, tangentPc>>
\* A call of convertRotationToXYZ on its own.
convertVars == <<conversion>>
\* The assignment of the blendshapes to the meshes.
assignVars == <<blendFile, extractedMeshes, geometryMeshes, assignPc>>
\* The skeleton test of the joints loop.
skeletonVars == <<attributes, skeletonJoints, hasSkeletonJoints, skeletonPc>>
\* The animation frames.
animationVars == <<animationCurves, animated, animationFrames, curveReads, animationPc>>
\* The name index of the joints.
indexVars == <<jointNames, namedJoints, jointIndices, indexPc>>
auxVars == <<propVars, nodeVars, shapeVars, tangentVars, convertVars, assignVars, skeletonVars, animationVars, indexVars>>
coreVars == <<extractVars, skinVars, readVars, geometry>>
otherThanProp == <<coreVars, nodeVars, shapeVars, tangentVars, convertVars, assignVars, skeletonVars, animationVars, indexVars>>
otherThanNode == <<coreVars, propVars, shapeVars, tangentVars, convertVars, assignVars, skeletonVars, animationVars, indexVars>>
otherThanShape == <<coreVars, propVars, nodeVars, tangentVars, convertVars, assignVars, skeletonVars, animationVars, indexVars>>
otherThanTangent == <<coreVars, propVars, nodeVars, shapeVars, convertVars, assignVars, skeletonVars, animationVars, indexVars>>
otherThanConvert == <<coreVars, propVars, nodeVars, shapeVars, tangentVars, assignVars, skeletonVars, animationVars, indexVars>>
otherThanAssign == <<coreVars, propVars, nodeVars, shapeVars, tangentVars, convertVars, skeletonVars, animationVars, indexVars>>
otherThanSkeleton == <<coreVars, propVars, nodeVars, shapeVars, tangentVars, convertVars, assignVars, animationVars, indexVars>>
otherThanAnimation == <<coreVars, propVars, nodeVars, shapeVars, tangentVars, convertVars, assignVars, skeletonVars, indexVars>>
otherThanIndex == <<coreVars, propVars, nodeVars, shapeVars, tangentVars, convertVars, assignVars, skeletonVars, animationVars>>
vars == <<coreVars, auxVars>>

\* ------------------------------------------------------ Qt containers
Min(S) == CHOOSE x \in S : \A y \in S : x <= y
Max(S) == CHOOSE x \in S : \A y \in S : x >= y
Range(s) == {s[i] : i \in 1..Len(s)}

\* QVector::contains
Contains(v, x) == \E i \in 1..Len(v) : v[i] = x

\* QVector::indexOf: the 0-based index of the first x, or -1
IndexOf(v, x) ==
    IF Contains(v, x) THEN Min({i \in 1..Len(v) : v[i] = x}) - 1 ELSE -1

\* QMultiMap::values(key): the values of key, most recently inserted first
Values(map, key) == map[key]

\* QMultiMap::value(key): the most recently inserted value, or a null QString
Value(map, key) == IF map[key] = <<>> THEN NullID ELSE Head(map[key])

\* QMultiMap::insert(key, value)
Insert(map, key, value) == [map EXCEPT ![key] = <<value>> \o @]

\* QMultiMap::contains(key, value)
ContainsPair(map, key, value) == Contains(map[key], value)

\* QMultiMap::remove(key, value): removes every such pair
RemovePair(map, key, value) ==
    [map EXCEPT ![key] = SelectSeq(@, LAMBDA v : v # value)]

\* QMap::take(key): removes the most recently inserted item of key
TakeRest(map, key) == [map EXCEPT ![key] = IF @ = <<>> THEN @ ELSE Tail(@)]

EmptyMap == [id \in AllIDs |-> <<>>]

\* The two connection maps after the Connections block has been read: every
\* connection is inserted into both, in file order.
RECURSIVE ParentMapOf(_), ChildMapOf(_)
ParentMapOf(cs) ==
    IF cs = <<>> THEN EmptyMap
    ELSE LET c == cs[Len(cs)]
         IN Insert(ParentMapOf(SubSeq(cs, 1, Len(cs) - 1)), c[1], c[2])
ChildMapOf(cs) ==
    IF cs = <<>> THEN EmptyMap
    ELSE LET c == cs[Len(cs)]
         IN Insert(ChildMapOf(SubSeq(cs, 1, Len(cs) - 1)), c[2], c[1])

\* The models table after the Objects block: every Model object, parentIndex -1.
NewModels == [m \in Models |-> [parentIndex |-> -1]]

\* --------------------------------------------------- getTopModelID
\* The parent the walk moves to: the first parent, most recent first, that is
\* not yet visited and is a model; NullID when there is none.
NextParentNoLoopCheck(parentMap, mdls, id, visited) ==
    LET parents == Values(parentMap, id)
        ok == {i \in 1..Len(parents) : parents[i] \in DOMAIN mdls}
    IN IF ok = {} THEN NullID ELSE parents[Min(ok)]

NextParent(parentMap, mdls, id, visited) ==
    LET parents == Values(parentMap, id)
        ok == {i \in 1..Len(parents) :
                  /\ ~Contains(visited, parents[i])
                  /\ parents[i] \in DOMAIN mdls}
    IN IF ok = {} THEN NullID ELSE parents[Min(ok)]

RECURSIVE TopWalk(_, _, _, _)
TopWalk(parentMap, mdls, top, visited) ==
    LET nowVisited == Append(visited, top)
        parent == NextParent(parentMap, mdls, top, nowVisited)
    IN IF parent = NullID THEN top ELSE TopWalk(parentMap, mdls, parent, nowVisited)

getTopModelID(parentMap, mdls, id) == TopWalk(parentMap, mdls, id, <<>>)

\* --------------------------------------------------- appendModelIDs
\* Whether appendModelIDs appends parentID.
AppendsAlways(parentID, remaining) == TRUE

Appends(parentID, remaining) == parentID \in remaining

\* The parentIndex appendModelIDs hands to the children of parentID.
ChildParentIndexOfFirst(isRootNode, ids) == IF isRootNode THEN -1 ELSE 0
ChildParentIndexIgnoringRoot(isRootNode, ids) == Len(ids) - 1

ChildParentIndex(isRootNode, ids) == IF isRootNode THEN -1 ELSE Len(ids) - 1

\* Whether the loop over the children descends into childID.
DescendsWithoutRemaining(childID, st) ==
    /\ childID \in DOMAIN st.models
    /\ st.models[childID].parentIndex = -1

Descends(childID, st) ==
    /\ childID \in st.remainingModels
    /\ st.models[childID].parentIndex = -1

\* st is [models, remainingModels, modelIDs], the three containers the
\* function changes.
RECURSIVE appendModelIDs(_, _, _, _), appendChildren(_, _, _, _)
appendModelIDs(parentID, connectionChildMap, st, isRootNode) ==
    LET st1 == IF Appends(parentID, st.remainingModels)
               THEN [st EXCEPT !.modelIDs = Append(@, parentID),
                               !.remainingModels = @ \ {parentID}]
               ELSE st
        parentIndex == ChildParentIndex(isRootNode, st1.modelIDs)
    IN appendChildren(Values(connectionChildMap, parentID), parentIndex,
                      connectionChildMap, st1)

appendChildren(children, parentIndex, connectionChildMap, st) ==
    IF children = <<>> THEN st
    ELSE LET childID == Head(children)
             st1 == IF Descends(childID, st)
                    THEN appendModelIDs(childID, connectionChildMap,
                             [st EXCEPT !.models[childID].parentIndex = parentIndex],
                             FALSE)
                    ELSE st
         IN appendChildren(Tail(children), parentIndex, connectionChildMap, st1)

\* ------------------------------------------- extractFBXGeometry: the passes
\* The cluster IDs below key, in the order of the two nested loops: for each
\* child of key, most recent first, each of its children that is a cluster.
RECURSIVE ChildrenOfAll(_, _)
ChildrenOfAll(childMap, ids) ==
    IF ids = <<>> THEN <<>>
    ELSE Values(childMap, Head(ids)) \o ChildrenOfAll(childMap, Tail(ids))

ClustersBelow(childMap, cls, key) ==
    SelectSeq(ChildrenOfAll(childMap, Values(childMap, key)), LAMBDA c : c \in cls)

\* "Unless the model is a root node": the test reads modelIDs, the vector the
\* ordering pass fills later.
isARootNode(ids, parentMap, key) == ~Contains(ids, Value(parentMap, key))

\* The reparenting of key to the top model of its first cluster's joint.
Reparent(maps, mdls, cls, key) ==
    LET found == ClustersBelow(maps.childMap, cls, key)
    IN IF found = <<>> THEN maps
       ELSE LET top == getTopModelID(maps.parentMap, mdls,
                                     Value(maps.childMap, Head(found)))
                taken == Value(maps.parentMap, key)
            IN [parentMap |-> Insert(TakeRest(maps.parentMap, key), key, top),
                childMap |-> RemovePair(maps.childMap, taken, key)]

\* "make sure the parent is in the child map"
EnsureChild(maps, key) ==
    LET parent == Value(maps.parentMap, key)
    IN IF ContainsPair(maps.childMap, parent, key) THEN maps
       ELSE [maps EXCEPT !.childMap = Insert(@, parent, key)]

\* One iteration of the loop over `models`: the two maps after it.
PrepareMaps(maps, mdls, cls, ids, key) ==
    EnsureChild(IF isARootNode(ids, maps.parentMap, key) THEN maps
                ELSE Reparent(maps, mdls, cls, key), key)

\* The loop over `models`, its keys coming in the order `order`.
RECURSIVE PrepareAll(_, _, _, _, _)
PrepareAll(maps, mdls, cls, ids, order) ==
    IF order = <<>> THEN maps
    ELSE PrepareAll(PrepareMaps(maps, mdls, cls, ids, Head(order)),
                    mdls, cls, ids, Tail(order))

\* The orders in which a QHash may hand out the keys S.
HashOrders(S) ==
    {o \in [1..Cardinality(S) -> S] : \A i, j \in DOMAIN o : o[i] = o[j] => i = j}

\* The smallest remaining model ID.
\* With the largest remaining ID picked instead.
LastRemaining(remaining) == Max(remaining)

FirstRemaining(remaining) == Min(remaining)

\* joint.freeLineage and lastFreeIndex after the walk over the ancestors.
LastFreeFirstOnly(isFree, size, lastFreeIndex) ==
    IF isFree /\ lastFreeIndex = -1 THEN size ELSE lastFreeIndex

LastFree(isFree, size, lastFreeIndex) ==
    IF isFree THEN size ELSE lastFreeIndex

RECURSIVE LineageWalk(_, _, _, _)
LineageWalk(index, lineage, lastFreeIndex, js) ==
    IF index = -1 THEN [freeLineage |-> lineage, lastFreeIndex |-> lastFreeIndex]
    ELSE LineageWalk(js[index + 1].parentIndex, Append(lineage, index),
                     LastFree(js[index + 1].isFree, Len(lineage), lastFreeIndex), js)

\* QVector::remove(i, count)
Remove(v, i, count) == SubSeq(v, 1, i) \o SubSeq(v, i + count + 1, Len(v))

NewJoint(mdls, js, id, isFree) ==
    LET parentIndex == mdls[id].parentIndex
        jointIndex == Len(js)
        walk == LineageWalk(parentIndex, <<jointIndex>>,
                            IF isFree THEN 0 ELSE -1, js)
        size == Len(walk.freeLineage)
    IN [isFree |-> isFree,
        parentIndex |-> parentIndex,
        freeLineage |-> Remove(walk.freeLineage, walk.lastFreeIndex + 1,
                               size - walk.lastFreeIndex - 1),
        bindTransformFoundInCluster |-> FALSE]

\* The joints after the loop over the rest of modelIDs.
RECURSIVE JointsLoop(_, _, _, _)
JointsLoop(mdls, ids, freeJoints, js) ==
    IF Len(js) = Len(ids) THEN js
    ELSE JointsLoop(mdls, ids, freeJoints,
                    Append(js, NewJoint(mdls, js, ids[Len(js) + 1],
                                        ids[Len(js) + 1] \in freeJoints)))

\* The joint index a cluster (or the mesh's own model) resolves to.
JointIndexNoFallback(ids, id) == IndexOf(ids, id)

JointIndexOf(ids, id) ==
    LET index == IndexOf(ids, id) IN IF index = -1 THEN 0 ELSE index

\* The mesh's owning model.
OwnerOf(mdls, parentMap, meshID) ==
    IF meshID \in DOMAIN mdls THEN meshID ELSE Value(parentMap, meshID)

\* ------------------------------------------------------------- the files
SeqsUpTo(S, n) == UNION {[1..k -> S] : k \in 0..n}

\* A connection of a model to its parent: another model or the scene root.
HierEdges == Models \X (Models \cup {Scene})

\* The connections of a skin: the deformer to the mesh, the cluster to the
\* deformer, the joint's model to the cluster.
SkinConns(meshID, jointID) ==
    IF jointID = NullID THEN <<>>
    ELSE << <<SkinDeformer, meshID>>, <<ClusterObj, SkinDeformer>>,
            <<jointID, ClusterObj>> >>

\* The connections of a skin whose cluster has no link to a joint's model.
UnlinkedSkinConns(meshID) ==
    << <<SkinDeformer, meshID>>, <<ClusterObj, SkinDeformer>> >>

\* ------------------------------------------------------------ joint names
\* A name is the sequence of the pieces of its QString between the ':'
\* characters: "Model::Hips" is <<"Model", "", "Hips">>.

\* processID: id.mid(id.lastIndexOf(':') + 1)
processID(id) == << id[Len(id)] >>

\* getName, for the name string of object.properties
getName(name) == processID(name)

\* The names of the joints in the Maya HumanIK rig
HUMANIK_JOINTS ==
    << "RightHand", "RightForeArm", "RightArm", "Head", "LeftArm",
       "LeftForeArm", "LeftHand", "Neck", "Spine", "Hips", "RightUpLeg",
       "LeftUpLeg", "RightLeg", "LeftLeg", "RightFoot", "LeftFoot" >>

\* processID(getString(joints.value(key, key)))
JointName(joints_, key) ==
    processID(IF key \in DOMAIN joints_ THEN joints_[key] ELSE << key >>)

\* humanIKJointNames
humanIKJointNames(joints_) ==
    [i \in DOMAIN HUMANIK_JOINTS |-> JointName(joints_, HUMANIK_JOINTS[i])]

\* The branches of the "if (name == jointEyeLeftName || ...) ... else if"
\* chain of a Model object, in the order they are tested: the variable a
\* branch assigns and the names it tests for.
SpecialJointTests(joints_) ==
    << [id |-> "jointEyeLeftID",
        names |-> {JointName(joints_, "jointEyeLeft"), <<"EyeL">>, <<"joint_Leye">>}],
       [id |-> "jointEyeRightID",
        names |-> {JointName(joints_, "jointEyeRight"), <<"EyeR">>, <<"joint_Reye">>}],
       [id |-> "jointNeckID",
        names |-> {JointName(joints_, "jointNeck"), <<"NeckRot">>, <<"joint_neck">>}],
       [id |-> "jointRootID", names |-> {JointName(joints_, "jointRoot")}],
       [id |-> "jointLeanID", names |-> {JointName(joints_, "jointLean")}],
       [id |-> "jointHeadID", names |-> {JointName(joints_, "jointHead")}],
       [id |-> "jointLeftHandID",
        names |-> {JointName(joints_, "jointLeftHand"), <<"LeftHand">>, <<"joint_L_hand">>}],
       [id |-> "jointRightHandID",
        names |-> {JointName(joints_, "jointRightHand"), <<"RightHand">>, <<"joint_R_hand">>}],
       [id |-> "jointLeftToeID",
        names |-> {<<"LeftToe">>, <<"joint_L_toe">>, <<"LeftToe_End">>}],
       [id |-> "jointRightToeID",
        names |-> {<<"RightToe">>, <<"joint_R_toe">>, <<"RightToe_End">>}] >>

\* The branch of the chain that a name takes: the first whose test holds,
\* or 0 when none does.
BranchTaken(tests, name) ==
    LET taken == {k \in DOMAIN tests : name \in tests[k].names}
    IN IF taken = {} THEN 0 ELSE Min(taken)

\* jointEyeLeftID ... jointRightToeID and humanIKJointIDs before the file
\* is read: null QStrings.
NoJointIDs ==
    [jointEyeLeftID |-> NullID, jointEyeRightID |-> NullID,
     jointNeckID |-> NullID, jointRootID |-> NullID, jointLeanID |-> NullID,
     jointHeadID |-> NullID, jointLeftHandID |-> NullID,
     jointRightHandID |-> NullID, jointLeftToeID |-> NullID,
     jointRightToeID |-> NullID]
NoHumanIKJointIDs == [i \in DOMAIN HUMANIK_JOINTS |-> NullID]

\* What one Model object does to jointEyeLeftID ... jointRightToeID.
NameJoint(ids, tests, object) ==
    LET k == BranchTaken(tests, getName(object.name))
    IN IF k = 0 THEN ids ELSE [ids EXCEPT ![tests[k].id] = object.id]

\* What one Model object does to humanIKJointIDs.
NameHumanIKJoint(ids, names, object) ==
    LET humanIKJointIndex == IndexOf(names, getName(object.name))
    IN IF humanIKJointIndex # -1
       THEN [ids EXCEPT ![humanIKJointIndex + 1] = object.id]
       ELSE ids

\* The two after the Model objects have been read, in file order.
RECURSIVE JointIDsOf(_, _), HumanIKJointIDsOf(_, _)
JointIDsOf(objects, joints_) ==
    IF objects = <<>> THEN NoJointIDs
    ELSE NameJoint(JointIDsOf(SubSeq(objects, 1, Len(objects) - 1), joints_),
                   SpecialJointTests(joints_), objects[Len(objects)])
HumanIKJointIDsOf(objects, joints_) ==
    IF objects = <<>> THEN NoHumanIKJointIDs
    ELSE NameHumanIKJoint(
             HumanIKJointIDsOf(SubSeq(objects, 1, Len(objects) - 1), joints_),
             humanIKJointNames(joints_), objects[Len(objects)])

\* The special-joint indices of a geometry whose joints are not yet known.
NoSpecialJoints ==
    [leftEyeJointIndex |-> -1, rightEyeJointIndex |-> -1,
     neckJointIndex |-> -1, rootJointIndex |-> -1, leanJointIndex |-> -1,
     headJointIndex |-> -1, leftHandJointIndex |-> -1,
     rightHandJointIndex |-> -1, leftToeJointIndex |-> -1,
     rightToeJointIndex |-> -1, humanIKJointIndices |-> <<>>]

\* modelIDs.indexOf(id), of "find our special joints"
SpecialJointIndexOrFirst(ids, id) == Max({0, IndexOf(ids, id)})
SpecialJointIndex(ids, id) == IndexOf(ids, id)

\* "find our special joints"
FindSpecialJoints(ids, jids, hids) ==
    [leftEyeJointIndex |-> SpecialJointIndex(ids, jids.jointEyeLeftID),
     rightEyeJointIndex |-> SpecialJointIndex(ids, jids.jointEyeRightID),
     neckJointIndex |-> SpecialJointIndex(ids, jids.jointNeckID),
     rootJointIndex |-> SpecialJointIndex(ids, jids.jointRootID),
     leanJointIndex |-> SpecialJointIndex(ids, jids.jointLeanID),
     headJointIndex |-> SpecialJointIndex(ids, jids.jointHeadID),
     leftHandJointIndex |-> SpecialJointIndex(ids, jids.jointLeftHandID),
     rightHandJointIndex |-> SpecialJointIndex(ids, jids.jointRightHandID),
     leftToeJointIndex |-> SpecialJointIndex(ids, jids.jointLeftToeID),
     rightToeJointIndex |-> SpecialJointIndex(ids, jids.jointRightToeID),
     humanIKJointIndices |->
         [i \in DOMAIN hids |-> SpecialJointIndex(ids, hids[i])]]

\* The Model objects of a file whose models have no name, in the order of
\* their IDs, and a mapping without a "joint" entry.
Unnamed == [m \in Models |-> [id |-> m, name |-> << "" >>]]
NoJointMapping == [x \in {} |-> << >>]

\* --------------------------------------------- properties of a Model object
\* enum RotationOrder
OrderXYZ == 0
OrderZYX == 5
OrderSphericXYZ == 6

\* glm::vec3() and glm::vec3(1.0f, 1.0f, 1.0f)
ZeroVec == <<0, 0, 0>>
OneVec == <<1, 1, 1>>

\* The locals of the Model branch as they are declared.
DefaultLocal ==
    [translation |-> ZeroVec, rotationOffset |-> ZeroVec,
     rotationOrder |-> OrderXYZ,
     preRotation |-> ZeroVec, rotation |-> ZeroVec, postRotation |-> ZeroVec,
     scale |-> OneVec,
     scalePivot |-> ZeroVec, rotationPivot |-> ZeroVec, scaleOffset |-> ZeroVec,
     rotationMinX |-> FALSE, rotationMinY |-> FALSE, rotationMinZ |-> FALSE,
     rotationMaxX |-> FALSE, rotationMaxY |-> FALSE, rotationMaxZ |-> FALSE,
     hasGeometricOffset |-> FALSE,
     geometricTranslation |-> ZeroVec, geometricScaling |-> OneVec,
     geometricRotation |-> ZeroVec,
     rotationMin |-> ZeroVec, rotationMax |-> ZeroVec]

\* glm::radians of a whole number of degrees, in units of 0.00001 radian,
\* rounded down.
Radians(degrees) == (degrees * 174533) \div 100

\* The limit stored for an axis if the flags were not looked at.
LimitWhateverTheFlag(flag, degrees, unlimited) == degrees

\* The limit stored for an axis: the file's when the flag of the axis is
\* set, -180 or 180 degrees otherwise.
Limit(flag, degrees, unlimited) == IF flag THEN degrees ELSE unlimited

\* The fields of the FBXModel that are set from the rotation limits and the
\* geometric offset of the locals.
NoModel == [rotationMin |-> ZeroVec, rotationMax |-> ZeroVec,
            hasGeometricOffset |-> FALSE]
ModelOf(locals) ==
    [rotationMin |->
        <<Radians(Limit(locals.rotationMinX, locals.rotationMin[1], -180)),
          Radians(Limit(locals.rotationMinY, locals.rotationMin[2], -180)),
          Radians(Limit(locals.rotationMinZ, locals.rotationMin[3], -180))>>,
     rotationMax |->
        <<Radians(Limit(locals.rotationMaxX, locals.rotationMax[1], 180)),
          Radians(Limit(locals.rotationMaxY, locals.rotationMax[2], 180)),
          Radians(Limit(locals.rotationMaxZ, locals.rotationMax[3], 180))>>,
     hasGeometricOffset |-> locals.hasGeometricOffset]

\* The branches of "if (childProperty == LCL_TRANSLATION) ... else if": the
\* name a branch tests for, the local it assigns and how it reads the value
\* ("vec3": getVec3(property.properties, index); "rotation": the same, given
\* to convertRotationToXYZ; "int", "bool": property.properties.at(index);
\* "geometric": getVec3, and hasGeometricOffset is set).
PropertyBranches ==
    << [name |-> "Lcl Translation", local |-> "translation", read |-> "vec3"],
       [name |-> "RotationOrder", local |-> "rotationOrder", read |-> "int"],
       [name |-> "RotationOffset", local |-> "rotationOffset", read |-> "vec3"],
       [name |-> "RotationPivot", local |-> "rotationPivot", read |-> "vec3"],
       [name |-> "PreRotation", local |-> "preRotation", read |-> "rotation"],
       [name |-> "Lcl Rotation", local |-> "rotation", read |-> "rotation"],
       [name |-> "PostRotation", local |-> "postRotation", read |-> "rotation"],
       [name |-> "ScalingPivot", local |-> "scalePivot", read |-> "vec3"],
       [name |-> "Lcl Scaling", local |-> "scale", read |-> "vec3"],
       [name |-> "ScalingOffset", local |-> "scaleOffset", read |-> "vec3"],
       [name |-> "RotationMin", local |-> "rotationMin", read |-> "vec3"],
       [name |-> "RotationMax", local |-> "rotationMax", read |-> "vec3"],
       [name |-> "RotationMinX", local |-> "rotationMinX", read |-> "bool"],
       [name |-> "RotationMinY", local |-> "rotationMinY", read |-> "bool"],
       [name |-> "RotationMinZ", local |-> "rotationMinZ", read |-> "bool"],
       [name |-> "RotationMaxX", local |-> "rotationMaxX", read |-> "bool"],
       [name |-> "RotationMaxY", local |-> "rotationMaxY", read |-> "bool"],
       [name |-> "RotationMaxZ", local |-> "rotationMaxZ", read |-> "bool"],
       [name |-> "GeometricTranslation", local |-> "geometricTranslation",
        read |-> "geometric"],
       [name |-> "GeometricRotation", local |-> "geometricRotation",
        read |-> "geometric"],
       [name |-> "GeometricScaling", local |-> "geometricScaling",
        read |-> "geometric"] >>

\* The branch a childProperty takes: the first whose test holds, or 0.
PropertyBranch(childProperty) ==
    LET taken == {k \in DOMAIN PropertyBranches :
                     PropertyBranches[k].name = childProperty}
    IN IF taken = {} THEN 0 ELSE Min(taken)

\* "propertyName" and "index" of a Properties60 or Properties70 node.
PropertyLayout(subobject) ==
    IF subobject = "Properties60"
    THEN [propertyName |-> "Property", index |-> 3]
    ELSE [propertyName |-> "P", index |-> 4]

\* convertRotationToXYZ's result.  A converted rotation is kept as the pair
\* of the order and the angles it was computed from.
Converted(rotationOrder, rotation_) ==
    IF rotationOrder = OrderXYZ THEN rotation_
    ELSE IF rotationOrder \in (OrderXYZ + 1)..OrderZYX
         THEN [order |-> rotationOrder, of |-> rotation_]
         ELSE rotation_

\* convertRotationToXYZ's "default:" is reached.
Unhandled(rotationOrder) == rotationOrder \notin OrderXYZ..OrderZYX

\* "if (!haveReportedUnhandledRotationOrder)" of convertRotationToXYZ
ReportsAlways(reported) == TRUE
Reports(reported) == ~reported

\* The state of the three variables after convertRotationToXYZ(rotationOrder, ...)
convertRotationToXYZ(rotationOrder) ==
    IF Unhandled(rotationOrder)
    THEN /\ warnings' = warnings
                + (IF Reports(haveReportedUnhandledRotationOrder) THEN 1 ELSE 0)
         /\ haveReportedUnhandledRotationOrder' = TRUE
         /\ unhandled' = unhandled + 1
         /\ ordersUsed' = ordersUsed \cup {rotationOrder}
    ELSE /\ ordersUsed' = ordersUsed \cup {rotationOrder}
         /\ UNCHANGED <<warnings, haveReportedUnhandledRotationOrder, unhandled>>

PropIdle ==
    /\ haveReportedUnhandledRotationOrder = FALSE
    /\ warnings = 0
    /\ unhandled = 0
    /\ ordersUsed = {}
    /\ model = NoModel
    /\ runs = 0
    /\ local = DefaultLocal
    /\ property = <<>>
    /\ readPc = "idle"


\* ------------------------------------------------------ nodes of the file
\* The tables extractFBXGeometry fills while it reads the file, the fields
\* of the geometry and the locals it sets from the header and the global
\* settings among them.  Each is kept as the sequence of the items inserted
\* into it, in the order they were inserted.
RoleMaps ==
    {"diffuseFactorTextures", "diffuseTextures", "transparentTextures",
     "bumpTextures", "normalTextures", "specularTextures", "metallicTextures",
     "shininessTextures", "roughnessTextures", "emissiveTextures",
     "ambientTextures", "ambientFactorTextures", "occlusionTextures",
     "localRotations", "localTranslations", "xComponents", "yComponents",
     "zComponents"}
TableNames ==
    {"author", "applicationName", "unitScaleFactor", "ambientColor",
     "meshes", "blendshapes", "modelIDsToNames", "models", "_textureParams",
     "_textureContent", "_fbxMaterials", "typeFlags", "lights", "clusters",
     "blendshapeChannelNames", "animationCurves", "ooChildToParent",
     "_connectionParentMap", "_connectionChildMap"} \cup RoleMaps
NoTables == [t \in TableNames |-> <<>>]

\* insert, append, operator<< or assignment of an item
Put(t, table, item) == [t EXCEPT ![table] = Append(@, item)]

\* QByteArray::toLower, piece by piece: a role string is the sequence of
\* its pieces, "DiffuseColor" is <<"Diffuse", "Color">>.
LowerPiece(piece) ==
    CASE piece = "Diffuse" -> "diffuse"
      [] piece = "Color" -> "color"
      [] piece = "Factor" -> "factor"
      [] piece = "Bump" -> "bump"
      [] piece = "Normal" -> "normal"
      [] piece = "Map" -> "map"
      [] piece = "TEX_" -> "tex_"
      [] piece = "Shininess" -> "shininess"
      [] piece = "Exponent" -> "exponent"
      [] piece = "Opacity" -> "opacity"
      [] piece = "Lcl Rotation" -> "lcl rotation"
      [] piece = "Curve" -> "curve"
      [] piece = "Skeleton" -> "skeleton"
      [] piece = "Limb" -> "limb"
      [] piece = "Null" -> "null"
      [] OTHER -> piece
toLower(string) == [i \in DOMAIN string |-> LowerPiece(string[i])]

\* QByteArray::contains
ContainsString(string, part) ==
    \E i \in 1..(Len(string) - Len(part) + 1) :
        SubSeq(string, i, i + Len(part) - 1) = part

\* The role map of an OP connection whose lower-cased role is type, "" when
\* it has none: "if (type.contains("DiffuseFactor")) ... else if".
BumpWithoutNormal(type) ==
    ContainsString(type, <<"bump">>) /\ ~ContainsString(type, <<"normal">>)
BumpTest(type) == ContainsString(type, <<"bump">>)
RoleMapOf(type) ==
    IF ContainsString(type, <<"Diffuse", "Factor">>) THEN "diffuseFactorTextures"
    ELSE IF ContainsString(type, <<"diffuse">>)
            /\ ~ContainsString(type, <<"tex_", "global_", "diffuse">>)
         THEN "diffuseTextures"
    ELSE IF ContainsString(type, <<"tex_", "color", "_map">>) THEN "diffuseTextures"
    ELSE IF ContainsString(type, <<"transparent", "color">>) THEN "transparentTextures"
    ELSE IF ContainsString(type, <<"transparency", "factor">>) THEN "transparentTextures"
    ELSE IF BumpTest(type) THEN "bumpTextures"
    ELSE IF ContainsString(type, <<"normal">>) THEN "normalTextures"
    ELSE IF ContainsString(type, <<"tex_", "normal", "_map">>) THEN "normalTextures"
    ELSE IF (ContainsString(type, <<"specular">>)
             /\ ~ContainsString(type, <<"tex_", "global_", "specular">>))
            \/ ContainsString(type, <<"reflection">>)
         THEN "specularTextures"
    ELSE IF ContainsString(type, <<"tex_", "metallic", "_map">>) THEN "metallicTextures"
    ELSE IF ContainsString(type, <<"shininess">>) THEN "shininessTextures"
    ELSE IF ContainsString(type, <<"tex_", "roughness", "_map">>) THEN "roughnessTextures"
    ELSE IF ContainsString(type, <<"emissive">>) THEN "emissiveTextures"
    ELSE IF ContainsString(type, <<"tex_", "emissive", "_map">>) THEN "emissiveTextures"
    ELSE IF ContainsString(type, <<"ambient", "color">>) THEN "ambientTextures"
    ELSE IF ContainsString(type, <<"ambient", "factor">>) THEN "ambientFactorTextures"
    ELSE IF ContainsString(type, <<"tex_", "ao", "_map">>) THEN "occlusionTextures"
    ELSE IF type = <<"lcl rotation">> THEN "localRotations"
    ELSE IF type = <<"lcl translation">> THEN "localTranslations"
    ELSE IF type = <<"d|x">> THEN "xComponents"
    ELSE IF type = <<"d|y">> THEN "yComponents"
    ELSE IF type = <<"d|z">> THEN "zComponents"
    ELSE ""

\* "} else if (object.name == "AnimationCurve") {", the last test of the
\* chain over the children of Objects
IsAnyObject(name) == TRUE
IsAnimationCurve(name) == name = "AnimationCurve"

\* What a child of Objects does to the tables: "if (object.name ==
\* "Geometry") ... else if".  kind is what the branch looks at beyond the
\* name: properties.at(2) of a Geometry, properties.last() of a Deformer,
\* the TypeFlags of a NodeAttribute ("" when it has none), "Content" for a
\* Video that has content.
ReadObject(t, object) ==
    IF object.name = "Geometry"
    THEN IF object.kind = "Mesh"
         THEN Put(t, "meshes", object.id)
         ELSE Put(t, "blendshapes", object.id)
    ELSE IF object.name = "Model"
    THEN Put(Put(t, "modelIDsToNames", object.id), "models", object.id)
    ELSE IF object.name = "Texture"
    THEN Put(t, "_textureParams", object.id)
    ELSE IF object.name = "Video"
    THEN IF object.kind = "Content"
         THEN Put(t, "_textureContent", object.id)
         ELSE t
    ELSE IF object.name = "Material"
    THEN Put(t, "_fbxMaterials", object.id)
    ELSE IF object.name = "NodeAttribute"
    THEN IF object.kind = "" THEN t
         ELSE IF object.kind = "Light"
         THEN Put(Put(t, "typeFlags", object.id), "lights", object.id)
         ELSE Put(t, "typeFlags", object.id)
    ELSE IF object.name = "Deformer"
    THEN IF object.kind = "Cluster"
         THEN Put(t, "clusters", object.id)
         ELSE IF object.kind = "BlendShapeChannel"
         THEN Put(t, "blendshapeChannelNames", object.id)
         ELSE t
    ELSE IF IsAnimationCurve(object.name)
    THEN Put(t, "animationCurves", object.id)
    ELSE t

\* What a child of Connections does to the tables.
ReadConnection(t, connection) ==
    IF connection.name = "C" \/ connection.name = "Connect"
    THEN LET childID == connection.properties[2]
             parentID == connection.properties[3]
             roled ==
                IF connection.properties[1] = "OO"
                THEN Put(t, "ooChildToParent", <<childID, parentID>>)
                ELSE IF connection.properties[1] = "OP"
                THEN LET map == RoleMapOf(toLower(connection.properties[4]))
                     IN IF map = "" THEN t
                        ELSE Put(t, map, <<parentID, childID>>)
                ELSE t
         IN Put(Put(roled, "_connectionParentMap", <<childID, parentID>>),
                "_connectionChildMap", <<parentID, childID>>)
    ELSE t

\* What a child of the root node other than Objects and Connections does
\* to the tables; kind tells whether the node has the Author and
\* ApplicationName, or the UnitScaleFactor and AmbientColor, entries.
ReadHeader(t, child) ==
    IF child.name = "FBXHeaderExtension"
    THEN IF child.kind = "" THEN t
         ELSE Put(Put(t, "author", child.id), "applicationName", child.id)
    ELSE IF child.name = "GlobalSettings"
    THEN IF child.kind = "" THEN t
         ELSE Put(Put(t, "unitScaleFactor", child.id), "ambientColor", child.id)
    ELSE t

NodeIdle ==
    /\ tables = NoTables
    /\ node = <<>>
    /\ nodesRead = 0
    /\ nodePc = "idle"


\* --------------------------------------------------------- joint shapes
\* The coordinates of the points are floats of one binade, in units of
\* their spacing, so that sums are exact and a quotient is rounded to the
\* nearest unit, ties to even.  A projection is a number of units plus a
\* number of FLT_MINs, the smallest positive normal float.
Float(units) == [units |-> units, tiny |-> 0]
FLT_MIN == [units |-> 0, tiny |-> 1]
Negated(x) == [units |-> -x.units, tiny |-> -x.tiny]
LessThan(x, y) == x.units < y.units \/ (x.units = y.units /\ x.tiny < y.tiny)

\* a / n in float, for a >= 0
RoundedQuotient(a, n) ==
    LET q == a \div n
        r == a % n
    IN IF 2 * r < n THEN q
       ELSE IF 2 * r > n THEN q + 1
       ELSE IF q % 2 = 0 THEN q ELSE q + 1

\* cardinalDirections; the last four are in units of INV_SQRT_3.
cardinalDirections ==
    << <<1, 0, 0>>, <<0, 1, 0>>, <<0, 0, 1>>,
       <<1, 1, 1>>, <<1, -1, 1>>, <<1, 1, -1>>, <<1, -1, -1>> >>

\* glm::dot(a, b - c)
DotOfDifference(a, b, c) ==
    a[1] * (b[1] - c[1]) + a[2] * (b[2] - c[2]) + a[3] * (b[3] - c[3])

\* "compute average point"
RECURSIVE SumOfPoints(_)
SumOfPoints(points) ==
    IF points = <<>> THEN <<0, 0, 0>>
    ELSE LET rest == SumOfPoints(Tail(points))
         IN <<Head(points)[1] + rest[1], Head(points)[2] + rest[2],
              Head(points)[3] + rest[3]>>
AveragePoint(points) ==
    LET sum == SumOfPoints(points)
    IN <<RoundedQuotient(sum[1], Len(points)),
         RoundedQuotient(sum[2], Len(points)),
         RoundedQuotient(sum[3], Len(points))>>

\* "float minDot = FLT_MIN"
MinDotStart == FLT_MIN

\* maxDot and minDot after "for (uint32_t k = 0; k < points.size(); ++k)",
\* from the projections kDot of the points, in their order.
RECURSIVE MaxDotOf(_, _), MinDotOf(_, _)
MaxDotOf(kDots, maxDot) ==
    IF kDots = <<>> THEN maxDot
    ELSE MaxDotOf(Tail(kDots),
                  IF LessThan(maxDot, Head(kDots)) THEN Head(kDots) ELSE maxDot)
MinDotOf(kDots, minDot) ==
    IF kDots = <<>> THEN minDot
    ELSE MinDotOf(Tail(kDots),
                  IF LessThan(Head(kDots), minDot) THEN Head(kDots) ELSE minDot)

\* The projections of the points along direction j, about avgPoint.
Projections(points, avgPoint, j) ==
    [k \in DOMAIN points |->
        Float(DotOfDifference(cardinalDirections[j], points[k], avgPoint))]

\* joint.shapeInfo after the iteration of a joint with the given points.  A
\* point of the shape is kept as the direction and the projection it was
\* computed from: avgPoint + dot * cardinalDirections[along].
NoShape == [avgPoint |-> <<0, 0, 0>>, points |-> <<>>, dots |-> <<>>]
ShapeOf(points) ==
    IF Len(points) > 0
    THEN LET avgPoint == AveragePoint(points)
             maxDot(j) == MaxDotOf(Projections(points, avgPoint, j),
                                   Negated(Float(FLT_MAX)))
             minDot(j) == MinDotOf(Projections(points, avgPoint, j), MinDotStart)
         IN [avgPoint |-> avgPoint,
             points |->
                [n \in 1..(2 * Len(cardinalDirections)) |->
                    LET j == (n + 1) \div 2
                    IN [along |-> j,
                        dot |-> IF n % 2 = 1 THEN maxDot(j) ELSE minDot(j)]],
             dots |->
                [n \in 1..(2 * Len(cardinalDirections)) |->
                    LET j == (n + 1) \div 2
                    IN IF n % 2 = 1 THEN maxDot(j) ELSE Negated(minDot(j))]]
    ELSE NoShape

ShapeIdle ==
    /\ shapeVertices = <<>>
    /\ shapeInfo = <<>>
    /\ shapeJoint = 0
    /\ shapePc = "idle"

\* ---------------------------------------------------- blendshape tangents
\* Indices count from 0, as in the code; element i of a vector is at
\* position i + 1 of the sequence that stands for it.
At(vector, i) == vector[i + 1]

\* The vertices of the mesh, and the blendshapes over them: blendShape.indices
\* lists the mesh vertices the blendshape defines, blendShape.vertices and
\* blendShape.normals hold one entry for each.
MeshIndices == 0..(NumVertices - 1)
NoBlendShape == [indices |-> <<>>]
BlendShapeSize(shape) == Len(shape.indices)

\* "std::iota(reverseIndices.begin(), reverseIndices.end(), 0)"
Iota == [v \in 1..NumVertices |-> v - 1]

\* reverseIndices after the loop over the first `count` blendshape indices.
RECURSIVE ReverseIndicesOf(_, _)
ReverseIndicesOf(indices, count) ==
    IF count = 0 THEN Iota
    ELSE [ReverseIndicesOf(indices, count - 1) EXCEPT
            ![At(indices, count - 1) + 1] = count - 1]

\* Whether the accessor takes a looked-up index for an index of the
\* blendshape.
InBlendShape(index, shape) == index < BlendShapeSize(shape)

\* The vertex accessor of _createBlendShapeTangents for the edge from
\* firstIndex to secondIndex: the two positions and the normal it hands out,
\* each named by the vector and the index it is read from, and the index of
\* the blendshape tangent it returns, -1 for nullptr.
NotAccessed == [firstIndex |-> -1, secondIndex |-> -1, tangent |-> -1,
                vertex0 |-> <<"", -1>>, vertex1 |-> <<"", -1>>,
                normal |-> <<"", -1>>]
Accessor(shape, reverse, firstIndex, secondIndex) ==
    LET index1 == At(reverse, firstIndex)
        index2 == At(reverse, secondIndex)
    IN IF InBlendShape(index1, shape)
       THEN [firstIndex |-> firstIndex, secondIndex |-> secondIndex,
             tangent |-> index1,
             vertex0 |-> <<"blendShape.vertices", index1>>,
             vertex1 |-> IF InBlendShape(index2, shape)
                         THEN <<"blendShape.vertices", index2>>
                         ELSE <<"mesh.vertices", secondIndex>>,
             normal |-> <<"blendShape.normals", index1>>]
       ELSE [NotAccessed EXCEPT !.firstIndex = firstIndex,
                                !.secondIndex = secondIndex]

TangentIdle ==
    /\ blendShape = NoBlendShape
    /\ reverseIndices = <<>>
    /\ accessed = NotAccessed
    /\ tangentPc = "idle"

\* -------------------------------------------------- rotation conversion
\* Angles are whole quarter turns (90 degrees), for which every rotation
\* matrix has integer entries; a rotation is its matrix, a tuple of rows.
QuarterTurns == 0..3
Cos(turns) == <<1, 0, -1, 0>>[(turns % 4) + 1]
Sin(turns) == <<0, 1, 0, -1>>[(turns % 4) + 1]

\* glm::quat(glm::radians(glm::vec3(x, 0, 0))), and about Y, and about Z
AboutX(turns) ==
    << <<1, 0, 0>>, <<0, Cos(turns), -Sin(turns)>>, <<0, Sin(turns), Cos(turns)>> >>
AboutY(turns) ==
    << <<Cos(turns), 0, Sin(turns)>>, <<0, 1, 0>>, <<-Sin(turns), 0, Cos(turns)>> >>
AboutZ(turns) ==
    << <<Cos(turns), -Sin(turns), 0>>, <<Sin(turns), Cos(turns), 0>>, <<0, 0, 1>> >>

\* operator* of two rotations: the right one is applied first.
Times(a, b) ==
    [i \in 1..3 |-> [j \in 1..3 |->
        a[i][1] * b[1][j] + a[i][2] * b[2][j] + a[i][3] * b[3][j]]]

\* glm::quat(glm::radians(angles)): about X first, then Y, then Z.
QuatOfEuler(angles) ==
    Times(AboutZ(angles[3]), Times(AboutY(angles[2]), AboutX(angles[1])))

\* safeEulerAngles: the angles whose quaternion is q.
safeEulerAngles(q) ==
    CHOOSE angles \in QuarterTurns \X QuarterTurns \X QuarterTurns :
        QuatOfEuler(angles) = q

\* The orders of the enum between OrderXYZ and OrderZYX.
OrderXZY == OrderXYZ + 1
OrderYZX == OrderXYZ + 2
OrderYXZ == OrderXYZ + 3
OrderZXY == OrderXYZ + 4

\* xyzRotation of OrderZYX with the factors in the order of the letters.
ComposedZYXReversed(rotation_) ==
    Times(AboutZ(rotation_[3]), Times(AboutY(rotation_[2]), AboutX(rotation_[1])))

ComposedZYX(rotation_) ==
    Times(AboutX(rotation_[1]), Times(AboutY(rotation_[2]), AboutZ(rotation_[3])))

\* xyzRotation after the switch, for the five orders it handles.
xyzRotation(rotationOrder, rotation_) ==
    IF rotationOrder = OrderXZY
    THEN Times(AboutY(rotation_[2]), Times(AboutZ(rotation_[3]), AboutX(rotation_[1])))
    ELSE IF rotationOrder = OrderYZX
    THEN Times(AboutX(rotation_[1]), Times(AboutZ(rotation_[3]), AboutY(rotation_[2])))
    ELSE IF rotationOrder = OrderYXZ
    THEN Times(AboutZ(rotation_[3]), Times(AboutX(rotation_[1]), AboutY(rotation_[2])))
    ELSE IF rotationOrder = OrderZXY
    THEN Times(AboutY(rotation_[2]), Times(AboutX(rotation_[1]), AboutZ(rotation_[3])))
    ELSE ComposedZYX(rotation_)

\* The angles convertRotationToXYZ returns.
ConvertedAngles(rotationOrder, rotation_) ==
    IF rotationOrder = OrderXYZ \/ Unhandled(rotationOrder) THEN rotation_
    ELSE safeEulerAngles(xyzRotation(rotationOrder, rotation_))

NotConverted == [rotationOrder |-> -1, rotation |-> <<0, 0, 0>>, result |-> <<0, 0, 0>>]
ConvertIdle == conversion = NotConverted

\* ------------------------------------------- blendshapes and their meshes
\* A Geometry object of subtype Shape, a Deformer of subtype
\* BlendShapeChannel and a Deformer of subtype BlendShape.
ShapeGeo == ClusterObj + 1
ChannelObj == ClusterObj + 2
BlendShapeObj == ClusterObj + 3

\* _connectionParentMap.value(id) after the connections cs have been read:
\* the parent of the last connection whose child is id, or a null QString.
RECURSIVE ParentIn(_, _)
ParentIn(cs, id) ==
    IF cs = <<>> THEN NullID
    ELSE IF cs[Len(cs)][1] = id THEN cs[Len(cs)][2]
    ELSE ParentIn(SubSeq(cs, 1, Len(cs) - 1), id)

\* QMap::operator[] on `meshes`: the keys after the lookup of key, which
\* inserts a default-constructed ExtractedMesh when the key is not there.
KeysAfterLookup(keys, key) == keys \cup {key}

\* The keys of `meshes` after "foreach (const ExtractedBlendshape& extracted,
\* blendshapes)" over the rest of the blendshapes.
RECURSIVE AssignBlendshapes(_, _, _)
AssignBlendshapes(keys, cs, shapes) ==
    IF shapes = <<>> THEN keys
    ELSE LET blendshapeChannelID == ParentIn(cs, Head(shapes))
             blendshapeID == ParentIn(cs, blendshapeChannelID)
             meshID == ParentIn(cs, blendshapeID)
         IN AssignBlendshapes(KeysAfterLookup(keys, meshID), cs, Tail(shapes))

\* The keys S of a QMap in the order its iterator visits them: ascending.
RECURSIVE Ascending(_)
Ascending(S) ==
    IF S = {} THEN <<>>
    ELSE <<Min(S)>> \o Ascending(S \ {Min(S)})

NoBlendFile == [meshes |-> {}, blendshapes |-> <<>>, conns |-> <<>>]
AssignIdle ==
    /\ blendFile = NoBlendFile
    /\ extractedMeshes = {}
    /\ geometryMeshes = <<>>
    /\ assignPc = "idle"

\* ------------------------------------------------------- skeleton joints
\* The NodeAttribute objects of a file, and the TypeFlags strings they may
\* have, as sequences of pieces; <<>> is the empty QString that
\* typeFlags.value gives for an attribute without a TypeFlags node.
NodeAttributes == 1..NumAttributes
TypeStrings == {<<>>, <<"Skeleton">>, <<"skeleton">>, <<"Limb", "Skeleton">>, <<"Null">>}

\* The type contains "Skeleton" in some letter case.
IsSkeletonTypeAnyCase(type) == ContainsString(toLower(type), <<"skeleton">>)

\* type.toLower().contains("Skeleton")
IsSkeletonType(type) == ContainsString(toLower(type), <<"Skeleton">>)

\* "foreach (const QString& childID, _connectionChildMap.values(modelID))"
\* over the rest of the children: what the loop leaves in
\* joint.isSkeletonJoint.  The first child with a non-empty type decides.
RECURSIVE SkeletonTest(_, _)
SkeletonTest(flags, children) ==
    IF children = <<>> THEN [assigned |-> FALSE, value |-> FALSE]
    ELSE LET type == flags[Head(children)]
         IN IF type # <<>>
            THEN [assigned |-> TRUE, value |-> IsSkeletonType(type)]
            ELSE SkeletonTest(flags, Tail(children))

NoAttributes == [typeFlags |-> <<>>, children |-> <<>>]
SkeletonIdle ==
    /\ attributes = NoAttributes
    /\ skeletonJoints = <<>>
    /\ hasSkeletonJoints = FALSE
    /\ skeletonPc = "idle"

\* ------------------------------------------------------ animation frames
\* The AnimationCurve objects of a file.  The k-th key value (from 0) of
\* curve id is the float 10 * id + k, so that the values of a curve and of
\* different curves differ; what animationCurves.value gives for an ID that
\* is not a curve has no values.
CurveIDs == {1, 2}
CurveValues(sizes, id) ==
    IF id \in CurveIDs THEN [k \in 1..sizes[id] |-> 10 * id + (k - 1)] ELSE <<>>

\* "figure the number of animation frames from the curves"
\* With the count started at 0.
FrameCountFromZero(sizes) == Max({0} \cup {sizes[id] : id \in CurveIDs})

FrameCount(sizes) == Max({1} \cup {sizes[id] : id \in CurveIDs})

\* The frames as they are appended: rotations and translations resized to
\* modelIDs.size(), every element default-constructed.
NewFrame(size) ==
    [rotations |-> [j \in 1..size |-> <<0, 0, 0>>],
     translations |-> [j \in 1..size |-> <<0, 0, 0>>]]

\* "curve.values.isEmpty() ? default : curve.values.at(i % curve.values.size())"
Component(values, i, default) ==
    IF values = <<>> THEN default ELSE At(values, i % Len(values))

\* The at() calls that makes, as <<size, index>>.
ReadsOf(values, i) ==
    IF values = <<>> THEN {} ELSE {<<Len(values), i % Len(values)>>}

\* The Euler angles (or the translation) of frame i made from three curves;
\* the joint's own rotation and translation are written 0.
FrameValue(sizes, curves, i) ==
    [c \in 1..3 |-> Component(CurveValues(sizes, curves[c]), i, 0)]

AnimationIdle ==
    /\ animationCurves = <<>>
    /\ animated = 0
    /\ animationFrames = <<>>
    /\ curveReads = {}
    /\ animationPc = <<"idle", 0>>

\* ----------------------------------------------------------- joint indices
\* QHash::insert(key, value): the value of an existing key is replaced.
\* With the first value of a key kept.
HashInsertKeepingFirst(hash, key, value) ==
    IF \E pair \in hash : pair[1] = key THEN hash ELSE hash \cup {<<key, value>>}

HashInsert(hash, key, value) ==
    {pair \in hash : pair[1] # key} \cup {<<key, value>>}

IndexIdle ==
    /\ jointNames = <<>>
    /\ namedJoints = <<>>
    /\ jointIndices = {}
    /\ indexPc = "idle"

AuxIdle == PropIdle /\ NodeIdle /\ ShapeIdle /\ TangentIdle /\ ConvertIdle /\ AssignIdle /\ SkeletonIdle /\ AnimationIdle /\ IndexIdle

\* ----------------------------------------------------------------- Init
SkinIdle ==
    /\ weightAccumulators = <<>>
    /\ clusterIndices = <<>>
    /\ clusterWeights = <<>>
    /\ delivered = <<>>
    /\ skinCluster = 0
    /\ skinPc = "idle"

\* The state when the loop over the top-level nodes has ended, for a file
\* with the connections cs, the mesh objects ms and the cluster objects cls.
InitFile(cs, ms, cls, mdls, objects, joints_) ==
    /\ conns = cs
    /\ meshes = ms
    /\ clusters = cls
    /\ _connectionParentMap = ParentMapOf(conns)
    /\ _connectionChildMap = ChildMapOf(conns)
    /\ models = mdls
    /\ remainingModels = {}
    /\ modelIDs = <<>>
    /\ rounds = 0
    /\ topID = NullID
    /\ visitedNodes = <<>>
    /\ joints = <<>>
    /\ modelID = NullID
    /\ mixamoHack = FALSE
    /\ nodeID = NullID
    /\ globalVisited = <<>>
    /\ clusterIDs = <<>>
    /\ meshClusters = <<>>
    /\ pc = "prepare"
    /\ SkinIdle
    /\ mapping = joints_
    /\ modelObjects = objects
    /\ jointIDs = JointIDsOf(objects, joints_)
    /\ humanIKJointIDs = HumanIKJointIDsOf(objects, joints_)
    /\ geometry = NoSpecialJoints
    /\ AuxIdle

\* A file whose Objects block holds the NumModels Model objects.
InitNamed(cs, ms, cls, objects, joints_) ==
    InitFile(cs, ms, cls, NewModels, objects, joints_)

\* The same for a file whose models have no name.
InitWith(cs, ms, cls) == InitNamed(cs, ms, cls, Unnamed, NoJointMapping)

\* Files without a mesh.
Init == \E h \in SeqsUpTo(HierEdges, MaxConn) : InitWith(h, {}, {})

\* -------------------------------------------------------------- actions
\* "for (model = models.constBegin(); model != models.constEnd(); model++)":
\* the whole loop.  QHash iterates in an unspecified order, so the keys may
\* come in any order.
PrepareModels ==
    /\ pc = "prepare"
    /\ \E order \in HashOrders(DOMAIN models) :
        LET maps == PrepareAll([parentMap |-> _connectionParentMap,
                                childMap |-> _connectionChildMap],
                               models, clusters, modelIDs, order)
        IN /\ _connectionParentMap' = maps.parentMap
           /\ _connectionChildMap' = maps.childMap
           /\ remainingModels' = remainingModels \cup Range(order)
    /\ pc' = "order"
    /\ UNCHANGED <<conns, meshes, clusters, models, modelIDs, rounds, topID,
                   visitedNodes, joints, modelID, mixamoHack, nodeID,
                   globalVisited, clusterIDs, meshClusters, skinVars,
                   readVars, geometry, auxVars>>

\* "while (!remainingModels.isEmpty())": the smallest remaining ID is picked
\* and getTopModelID is entered.
PickFirst ==
    /\ pc = "order"
    /\ remainingModels # {}
    /\ topID' = FirstRemaining(remainingModels)
    /\ visitedNodes' = <<>>
    /\ rounds' = rounds + 1
    /\ pc' = "top"
    /\ UNCHANGED <<conns, meshes, clusters, _connectionParentMap,
                   _connectionChildMap, models, remainingModels,
                   modelIDs, joints, modelID, mixamoHack, nodeID, globalVisited,
                   clusterIDs, meshClusters, skinVars,
                   readVars, geometry, auxVars>>

\* One iteration of getTopModelID's "forever".
TopStep ==
    /\ pc = "top"
    /\ visitedNodes' = Append(visitedNodes, topID)
    /\ LET parent == NextParent(_connectionParentMap, models, topID, visitedNodes')
       IN IF parent = NullID
          THEN /\ topID' = topID
               /\ pc' = "append"
          ELSE /\ topID' = parent
               /\ pc' = "top"
    /\ UNCHANGED <<conns, meshes, clusters, _connectionParentMap,
                   _connectionChildMap, models, remainingModels,
                   modelIDs, rounds, joints, modelID, mixamoHack, nodeID,
                   globalVisited, clusterIDs, meshClusters, skinVars,
                   readVars, geometry, auxVars>>

\* appendModelIDs(_connectionParentMap.value(topID), ..., true)
AppendRound ==
    /\ pc = "append"
    /\ LET st == appendModelIDs(Value(_connectionParentMap, topID),
                                _connectionChildMap,
                                [models |-> models,
                                 remainingModels |-> remainingModels,
                                 modelIDs |-> modelIDs], TRUE)
       IN /\ models' = st.models
          /\ remainingModels' = st.remainingModels
          /\ modelIDs' = st.modelIDs
    /\ pc' = "order"
    /\ UNCHANGED <<conns, meshes, clusters, _connectionParentMap,
                   _connectionChildMap, rounds, topID, visitedNodes,
                   joints, modelID, mixamoHack, nodeID, globalVisited,
                   clusterIDs, meshClusters, skinVars,
                   readVars, geometry, auxVars>>

\* The while loop ends.
FinishOrder ==
    /\ pc = "order"
    /\ remainingModels = {}
    /\ pc' = "joints"
    /\ UNCHANGED <<conns, meshes, clusters, _connectionParentMap,
                   _connectionChildMap, models, remainingModels,
                   modelIDs, rounds, topID, visitedNodes, joints, modelID,
                   mixamoHack, nodeID, globalVisited, clusterIDs, meshClusters,
                   skinVars,
                   readVars, geometry, auxVars>>

\* "foreach (const QString& modelID, modelIDs)": the whole loop; freeJoints
\* are the models whose names the mapping's freeJoint list holds.  "find our
\* special joints" follows it; then the loop over `meshes` begins, or, with
\* no mesh, the function returns.
BuildJoints(freeJoints) ==
    /\ pc = "joints"
    /\ joints' = JointsLoop(models, modelIDs, freeJoints, joints)
    /\ geometry' = FindSpecialJoints(modelIDs, jointIDs, humanIKJointIDs)
    /\ pc' = IF meshes = {} THEN "done" ELSE "meshes"
    /\ UNCHANGED <<conns, meshes, clusters, _connectionParentMap,
                   _connectionChildMap, models, remainingModels,
                   modelIDs, rounds, topID, visitedNodes, modelID, mixamoHack,
                   nodeID, globalVisited, clusterIDs, meshClusters, skinVars,
                   readVars, auxVars>>

\* The mesh's owning model is resolved and getGlobalTransform is entered.
StartMesh(hack) ==
    /\ pc = "meshes"
    /\ \E meshID \in meshes :
          modelID' = OwnerOf(models, _connectionParentMap, meshID)
    /\ mixamoHack' = hack
    /\ nodeID' = modelID'
    /\ globalVisited' = <<>>
    /\ pc' = "global"
    /\ UNCHANGED <<conns, meshes, clusters, _connectionParentMap,
                   _connectionChildMap, models, remainingModels,
                   modelIDs, rounds, topID, visitedNodes, joints, clusterIDs,
                   meshClusters, skinVars,
                   readVars, geometry, auxVars>>

\* One iteration of getGlobalTransform's "while (!nodeID.isNull())".
GlobalStep ==
    /\ pc = "global"
    /\ nodeID # NullID
    /\ globalVisited' = Append(globalVisited, nodeID)
    /\ IF mixamoHack
       THEN /\ nodeID' = nodeID
            /\ pc' = "clusters"
       ELSE /\ nodeID' = NextParent(_connectionParentMap, models, nodeID, globalVisited')
            /\ pc' = "global"
    /\ UNCHANGED <<conns, meshes, clusters, _connectionParentMap,
                   _connectionChildMap, models, remainingModels,
                   modelIDs, rounds, topID, visitedNodes, joints, modelID,
                   mixamoHack, clusterIDs, meshClusters, skinVars,
                   readVars, geometry, auxVars>>

\* getGlobalTransform's loop ends.
GlobalReturn ==
    /\ pc = "global"
    /\ nodeID = NullID
    /\ pc' = "clusters"
    /\ UNCHANGED <<conns, meshes, clusters, _connectionParentMap,
                   _connectionChildMap, models, remainingModels,
                   modelIDs, rounds, topID, visitedNodes, joints, modelID,
                   mixamoHack, nodeID, globalVisited, clusterIDs, meshClusters,
                   skinVars,
                   readVars, geometry, auxVars>>

\* "find the clusters with which the mesh is associated" and "if we don't
\* have a skinned joint, parent to the model itself".
BindClusters ==
    /\ pc = "clusters"
    /\ \E meshID \in meshes :
        LET found == ClustersBelow(_connectionChildMap, clusters, meshID)
            fromSkin == [i \in 1..Len(found) |->
                            [jointIndex |-> JointIndexOf(modelIDs,
                                               Value(_connectionChildMap, found[i]))]]
            bound == {fromSkin[i].jointIndex : i \in 1..Len(fromSkin)}
        IN /\ clusterIDs' = found
           /\ meshClusters' =
                 IF fromSkin = <<>>
                 THEN << [jointIndex |-> JointIndexOf(modelIDs, modelID)] >>
                 ELSE fromSkin
           /\ joints' = [i \in 1..Len(joints) |->
                            IF (i - 1) \in bound
                            THEN [joints[i] EXCEPT !.bindTransformFoundInCluster = TRUE]
                            ELSE joints[i]]
    /\ pc' = "done"
    /\ UNCHANGED <<conns, meshes, clusters, _connectionParentMap,
                   _connectionChildMap, models, remainingModels,
                   modelIDs, rounds, topID, visitedNodes, modelID, mixamoHack,
                   nodeID, globalVisited, skinVars,
                   readVars, geometry, auxVars>>

\* ------------------------------------------ the multi-cluster weights
\* extracted.newIndices: the vertices made from a control point.  Control
\* point 0 was split into all vertices but the last; the last vertex comes
\* from control point 1, which no cluster lists.
newIndices(oldIndex) ==
    IF oldIndex = 0 THEN 0..(NumVertices - 2) ELSE {NumVertices - 1}

\* k when "for (; k < WEIGHTS_PER_VERTEX; k++)" is left: the first slot whose
\* accumulator is 0.0f, or WEIGHTS_PER_VERTEX.
UnusedSlot(acc, weightIndex) ==
    LET unused == {k \in 0..(WEIGHTS_PER_VERTEX - 1) : acc[weightIndex + k + 1] = 0}
    IN IF unused = {} THEN WEIGHTS_PER_VERTEX ELSE Min(unused)

\* lowestIndex after a full scan: "<" keeps the first of equal lowest slots.
LowestIndex(acc, weightIndex) ==
    Min({k \in 0..(WEIGHTS_PER_VERTEX - 1) :
            \A j \in 0..(WEIGHTS_PER_VERTEX - 1) :
                acc[weightIndex + k + 1] <= acc[weightIndex + j + 1]})

ReplacesOnTie(weight, lowestWeight) == weight >= lowestWeight

\* "weight > lowestWeight"
Replaces(weight, lowestWeight) == weight > lowestWeight

\* The slot the weight is written to, or -1 when it is dropped.
TargetSlot(acc, weightIndex, weight) ==
    LET k == UnusedSlot(acc, weightIndex)
        lowestIndex == LowestIndex(acc, weightIndex)
    IN IF k < WEIGHTS_PER_VERTEX THEN k
       ELSE IF Replaces(weight, acc[weightIndex + lowestIndex + 1]) THEN lowestIndex
       ELSE -1

\* Whether the weight of control point oldIndex is written to element n of
\* the two vectors: n is the target slot of a vertex made from oldIndex.
Written(acc, oldIndex, weight, n) ==
    /\ ((n - 1) \div WEIGHTS_PER_VERTEX) \in newIndices(oldIndex)
    /\ TargetSlot(acc, ((n - 1) \div WEIGHTS_PER_VERTEX) * WEIGHTS_PER_VERTEX, weight)
          = (n - 1) % WEIGHTS_PER_VERTEX

\* totalWeight of the vertex whose slots begin at j.
TotalWeight(acc, j) ==
    acc[j + 1] + acc[j + 2] + acc[j + 3] + acc[j + 4]

\* (uint16_t)(weightScalingFactor * weight + ALMOST_HALF).  The weights are
\* multiples of 0.25f no larger than 1.0f, for which the float result is this
\* exact quotient, truncated.
Compress(weight, totalWeight) ==
    (UINT16_MAX * weight * 1000 + ALMOST_HALF * totalWeight) \div (1000 * totalWeight)

ExtractAt(ms, at) ==
    /\ conns = <<>>
    /\ meshes = ms
    /\ clusters = {}
    /\ _connectionParentMap = EmptyMap
    /\ _connectionChildMap = EmptyMap
    /\ models = NewModels
    /\ remainingModels = {}
    /\ modelIDs = <<>>
    /\ rounds = 0
    /\ topID = NullID
    /\ visitedNodes = <<>>
    /\ joints = <<>>
    /\ modelID = NullID
    /\ mixamoHack = FALSE
    /\ nodeID = NullID
    /\ globalVisited = <<>>
    /\ clusterIDs = <<>>
    /\ meshClusters = <<>>
    /\ pc = at
    /\ mapping = NoJointMapping
    /\ modelObjects = Unnamed
    /\ jointIDs = NoJointIDs
    /\ humanIKJointIDs = NoHumanIKJointIDs
    /\ geometry = NoSpecialJoints
    /\ AuxIdle

ExtractIdle == ExtractAt({Geo}, "skin")

\* "if (clusterIDs.size() > 1)" has been entered and the two vectors filled.
SkinInit ==
    /\ ExtractIdle
    /\ weightAccumulators = [n \in 1..(NumVertices * WEIGHTS_PER_VERTEX) |-> 0]
    /\ clusterIndices = [n \in 1..(NumVertices * WEIGHTS_PER_VERTEX) |-> 0]
    /\ clusterWeights = <<>>
    /\ delivered = <<>>
    /\ skinCluster = 0
    /\ skinPc = "accumulate"

\* One iteration of "for (int i = 0; i < clusterIDs.size(); i++)" for a
\* cluster that lists no control point.
SkipCluster ==
    /\ skinPc = "accumulate"
    /\ skinCluster < NumClusters
    /\ skinCluster' = skinCluster + 1
    /\ UNCHANGED <<extractVars, readVars, geometry, auxVars, weightAccumulators, clusterIndices,
                   clusterWeights, delivered, skinPc>>

\* One iteration of "for (int i = 0; i < clusterIDs.size(); i++)" for a
\* cluster that lists control point 0 with the given weight.
AccumulateCluster(weight) ==
    /\ skinPc = "accumulate"
    /\ skinCluster < NumClusters
    /\ weightAccumulators' =
          [n \in DOMAIN weightAccumulators |->
              IF Written(weightAccumulators, 0, weight, n)
              THEN weight ELSE weightAccumulators[n]]
    /\ clusterIndices' =
          [n \in DOMAIN clusterIndices |->
              IF Written(weightAccumulators, 0, weight, n)
              THEN skinCluster ELSE clusterIndices[n]]
    /\ delivered' = Append(delivered,
          [cluster |-> skinCluster, oldIndex |-> 0, weight |-> weight])
    /\ skinCluster' = skinCluster + 1
    /\ UNCHANGED <<extractVars, readVars, geometry, auxVars, clusterWeights, skinPc>>

\* "normalize and compress to 16-bits": the whole loop over the vertices.
NormalizeWeights ==
    /\ skinPc = "accumulate"
    /\ skinCluster = NumClusters
    /\ clusterWeights' =
          [n \in DOMAIN weightAccumulators |->
              LET j == ((n - 1) \div WEIGHTS_PER_VERTEX) * WEIGHTS_PER_VERTEX
                  totalWeight == TotalWeight(weightAccumulators, j)
              IN IF totalWeight > 0
                 THEN Compress(weightAccumulators[n], totalWeight)
                 ELSE 0]
    /\ skinPc' = "done"
    /\ UNCHANGED <<extractVars, readVars, geometry, auxVars, weightAccumulators, clusterIndices, delivered,
                   skinCluster>>

\* ------------------------------------------------- the specifications
\* A file without a mesh, read with a mapping whose freeJoint list may hold
\* any of the models' names.
Next ==
    \/ PrepareModels
    \/ PickFirst
    \/ TopStep
    \/ AppendRound
    \/ FinishOrder
    \/ \E freeJoints \in SUBSET Models : BuildJoints(freeJoints)

Spec == Init /\ [][Next]_vars

\* A file with one mesh, read with a mapping that has no freeJoint entry.
\* The mesh is embedded in a Model (its ID is the model's) or is a Geometry
\* object connected to its owner; it has a skin of one cluster or none.
MeshInit ==
    \E h \in SeqsUpTo(HierEdges, MaxMeshConn), j \in Models \cup {NullID} :
        \/ \E m \in Models :
              InitWith(h \o SkinConns(m, j), {m},
                       IF j = NullID THEN {} ELSE {ClusterObj})
        \/ \E o \in Models \cup {Scene} :
              InitWith(h \o << <<Geo, o>> >> \o SkinConns(Geo, j), {Geo},
                       IF j = NullID THEN {} ELSE {ClusterObj})

MeshNext ==
    \/ PrepareModels
    \/ PickFirst
    \/ TopStep
    \/ AppendRound
    \/ FinishOrder
    \/ BuildJoints({})
    \/ \E hack \in BOOLEAN : StartMesh(hack)
    \/ GlobalStep
    \/ GlobalReturn
    \/ BindClusters

MeshSpec == MeshInit /\ [][MeshNext]_vars

\* A file without a mesh whose models are named, read with a mapping that
\* may name the root joint.  The Model objects come in the order of their
\* IDs or in the reverse order, and at most one is connected to a parent.
ModelNames == { <<"Hips">>, <<"Model", "", "NeckRot">>, <<"mesh">> }
RootNames == { <<"Hips">>, <<"NeckRot">> }
NamedObjects(names, reversed) ==
    [i \in 1..NumModels |->
        LET m == IF reversed THEN NumModels + 1 - i ELSE i
        IN [id |-> m, name |-> names[m]]]
NameInit ==
    \E names \in [Models -> ModelNames], reversed \in BOOLEAN :
        \E h \in {<<>>} \cup {<<e>> : e \in HierEdges} :
            \/ InitNamed(h, {}, {}, NamedObjects(names, reversed), NoJointMapping)
            \/ \E root \in RootNames :
                  InitNamed(h, {}, {}, NamedObjects(names, reversed),
                            [jointRoot |-> root])

NameNext ==
    \/ PrepareModels
    \/ PickFirst
    \/ TopStep
    \/ AppendRound
    \/ FinishOrder
    \/ BuildJoints({})

NameSpec == NameInit /\ [][NameNext]_vars

\* ---------------------------------------------------- reading the properties
\* The values a file gives: a vector, a flag, a rotation order.
FileVec == <<10, 20, 30>>
FileOrders == {OrderXYZ, OrderZYX, OrderSphericXYZ, OrderSphericXYZ + 1}
\* How the branch of a name reads its value, "none" when no branch tests
\* for the name.
ReadOf(childProperty) ==
    IF PropertyBranch(childProperty) = 0 THEN "none"
    ELSE PropertyBranches[PropertyBranch(childProperty)].read

\* A child of a Properties60 or Properties70 node: the node's name, the
\* child's name, properties.size(), properties.at(0) and the value that
\* begins at properties.at(index); `order` is the number the file gives a
\* rotation order or a flag, and toBool() of a number tells whether it is
\* not 0.
Entry(subobject, name, size, childProperty, order) ==
    [subobject |-> subobject, name |-> name, size |-> size,
     childProperty |-> IF size = 0 THEN "" ELSE childProperty,
     value |-> CASE ReadOf(childProperty) = "int" -> order
                 [] ReadOf(childProperty) = "bool" -> order # 0
                 [] OTHER -> FileVec]

\* An entry that getVec3 reads has the three values getVec3 takes.
WellFormedForGetVec3(entry) ==
    (entry.size > 0 /\ ReadOf(entry.childProperty) \in {"vec3", "rotation", "geometric"})
        => entry.size >= PropertyLayout(entry.subobject).index + 3

\* "haveReportedUnhandledRotationOrder = false": extractFBXGeometry is entered.
StartRun ==
    /\ readPc \in {"idle", "returned"}
    /\ runs < MaxRuns
    /\ runs' = runs + 1
    /\ haveReportedUnhandledRotationOrder' = FALSE
    /\ warnings' = 0
    /\ unhandled' = 0
    /\ ordersUsed' = {}
    /\ model' = NoModel
    /\ local' = DefaultLocal
    /\ property' = <<>>
    /\ readPc' = "objects"
    /\ UNCHANGED otherThanProp

\* "} else if (object.name == "Model") {": the locals are declared.
StartModel ==
    /\ readPc = "objects"
    /\ local' = DefaultLocal
    /\ property' = <<>>
    /\ ordersUsed' = {}
    /\ model' = NoModel
    /\ readPc' = "model"
    /\ UNCHANGED <<otherThanProp, haveReportedUnhandledRotationOrder, warnings,
                   unhandled, runs>>

\* QList::at(i) with i out of range: an assertion failure, or a read past
\* the end of the list.
AtAborts ==
    /\ readPc' = "aborted"
    /\ UNCHANGED <<local, haveReportedUnhandledRotationOrder, warnings, unhandled,
                              ordersUsed>>

\* One iteration of "foreach(const FBXNode& property, subobject.children)".
ReadProperty(entry) ==
    /\ readPc = "model"
    /\ property' = entry
    /\ LET layout == PropertyLayout(entry.subobject)
           k == PropertyBranch(entry.childProperty)
           branch == PropertyBranches[k]
       IN IF entry.size = 0
          THEN \* property.properties.at(0) is out of range
               \/ AtAborts
               \/ UNCHANGED <<local, readPc, haveReportedUnhandledRotationOrder,
                              warnings, unhandled,
                              ordersUsed>>
          ELSE IF entry.name # layout.propertyName \/ k = 0
          THEN UNCHANGED <<local, readPc, haveReportedUnhandledRotationOrder,
                           warnings, unhandled,
                              ordersUsed>>
          ELSE IF branch.read \in {"int", "bool"}
          THEN IF layout.index < entry.size
               THEN /\ local' = [local EXCEPT ![branch.local] = entry.value]
                    /\ UNCHANGED <<readPc, haveReportedUnhandledRotationOrder,
                                   warnings, unhandled,
                              ordersUsed>>
               ELSE \* property.properties.at(index) is out of range
                    \/ AtAborts
                    \/ /\ \E garbage \in IF branch.read = "int"
                                         THEN FileOrders ELSE BOOLEAN :
                             local' = [local EXCEPT ![branch.local] = garbage]
                       /\ UNCHANGED <<readPc, haveReportedUnhandledRotationOrder,
                                      warnings, unhandled,
                              ordersUsed>>
          ELSE IF branch.read = "rotation"
          THEN /\ unhandled < MaxUnhandled
               /\ local' = [local EXCEPT ![branch.local] =
                               Converted(local.rotationOrder, entry.value)]
               /\ convertRotationToXYZ(local.rotationOrder)
               /\ UNCHANGED readPc
          ELSE /\ local' = [local EXCEPT
                               ![branch.local] = entry.value,
                               !.hasGeometricOffset =
                                   @ \/ branch.read = "geometric"]
               /\ UNCHANGED <<readPc, haveReportedUnhandledRotationOrder,
                              warnings, unhandled,
                              ordersUsed>>
    /\ UNCHANGED <<otherThanProp, runs, model>>

\* "models.insert(getID(object.properties), model)"
FinishModel ==
    /\ readPc = "model"
    /\ readPc' = "objects"
    /\ property' = <<>>
    /\ ordersUsed' = {}
    /\ model' = ModelOf(local)
    /\ UNCHANGED <<otherThanProp, haveReportedUnhandledRotationOrder, warnings,
                   unhandled, runs, local>>

\* "return geometryPtr"
FinishRun ==
    /\ readPc = "objects"
    /\ readPc' = "returned"
    /\ UNCHANGED <<otherThanProp, haveReportedUnhandledRotationOrder, warnings,
                   unhandled, ordersUsed, runs,
                   local, property, model>>

\* extractFBXGeometry has not been called.
PropInit ==
    /\ ExtractAt({}, "idle")
    /\ SkinIdle

\* The reading of the entries with one of the given node names, property
\* names and sizes.
ReadEntries(nodeNames, names, sizes) ==
    \E subobject \in {"Properties60", "Properties70"},
       name \in nodeNames, size \in sizes, childProperty \in names :
         \E order \in IF ReadOf(childProperty) = "int" THEN FileOrders
                       ELSE IF ReadOf(childProperty) = "bool" THEN {0, 1}
                       ELSE {OrderXYZ} :
            LET entry == Entry(subobject, name, size, childProperty, order)
            IN WellFormedForGetVec3(entry) /\ ReadProperty(entry)

\* The reading of the entries with one of the given names and sizes.
ReadSome(names, sizes) == ReadEntries({"Property", "P"}, names, sizes)

\* extractFBXGeometry is called MaxRuns times, one call after the other, on
\* files whose Model objects have property entries of any size up to
\* MaxValues; "Visibility" is a name no branch tests for.
PropNext ==
    \/ StartRun
    \/ StartModel
    \/ ReadSome({"RotationOrder", "RotationMinX", "Visibility"}, 0..MaxValues)
    \/ FinishModel
    \/ FinishRun

PropSpec == PropInit /\ [][PropNext]_vars

\* The same on files whose Model objects have a rotation order and
\* rotations, each entry with all its values.
RotationNext ==
    \/ StartRun
    \/ StartModel
    \/ ReadEntries({"P"}, {"RotationOrder", "PreRotation", "Lcl Rotation"},
                   {PropertyLayout("Properties70").index + 3})
    \/ FinishModel
    \/ FinishRun

RotationSpec == PropInit /\ [][RotationNext]_vars

\* The same on files whose Model objects have rotation limits and flags
\* that enable them, each entry with all its values.
LimitNext ==
    \/ StartRun
    \/ StartModel
    \/ ReadEntries({"P"}, {"RotationMin", "RotationMax", "RotationMinX",
                          "RotationMinZ", "RotationMaxY"},
                   {PropertyLayout("Properties70").index + 3})
    \/ FinishModel
    \/ FinishRun

LimitSpec == PropInit /\ [][LimitNext]_vars

\* ------------------------------------------------------ reading the nodes
\* The children of the root node, of Objects and of Connections in the
\* files read here.  "Definitions", "Takes", "Pose", "AnimationCurveNode"
\* and "Comment" are names no branch tests for.
RootChildren ==
    [name : {"FBXHeaderExtension", "GlobalSettings", "Objects", "Connections",
             "Definitions", "Takes"},
     kind : {"", "set"}, id : {1}]
ObjectKinds(name) ==
    CASE name = "Geometry" -> {"Mesh", "Shape"}
      [] name = "Video" -> {"", "Content"}
      [] name = "NodeAttribute" -> {"", "Light", "Camera"}
      [] name = "Deformer" -> {"Cluster", "BlendShapeChannel", "Skin"}
      [] OTHER -> {""}
ObjectNames ==
    {"Geometry", "Model", "Texture", "Video", "Material", "NodeAttribute",
     "Deformer", "AnimationCurve", "Pose", "AnimationCurveNode"}
Roles ==
    { <<"Diffuse", "Color">>, <<"Diffuse", "Factor">>,
      <<"tex_", "global_", "diffuse">>, <<"Bump">>, <<"Normal", "Map">>,
      <<"Normal", "Bump">>, <<"TEX_", "normal", "_map">>,
      <<"Shininess", "Exponent">>, <<"Opacity">>, <<"Lcl Rotation">>,
      <<"Curve", "Lcl Rotation">> }
ConnectionProperties ==
    {<<"OO", 1, 2, <<>>>>, <<"PO", 1, 2, <<>>>>}
        \cup {<<"OP", 1, 2, role>> : role \in Roles}

\* "foreach (const FBXNode& child, node.children)" is entered.
StartReading ==
    /\ nodePc = "idle"
    /\ nodePc' = "root"
    /\ UNCHANGED <<otherThanNode, tables, node, nodesRead>>

\* One iteration of "foreach (const FBXNode& child, node.children)" for a
\* child other than Objects and Connections.
ReadRootChild(child) ==
    /\ nodePc = "root"
    /\ nodesRead < MaxNodes
    /\ child.name \notin {"Objects", "Connections"}
    /\ node' = child
    /\ nodesRead' = nodesRead + 1
    /\ tables' = ReadHeader(tables, child)
    /\ UNCHANGED <<otherThanNode, nodePc>>

\* The iteration for the Objects or the Connections child begins.
EnterChild(child) ==
    /\ nodePc = "root"
    /\ nodesRead < MaxNodes
    /\ child.name \in {"Objects", "Connections"}
    /\ node' = child
    /\ nodesRead' = nodesRead + 1
    /\ nodePc' = child.name
    /\ UNCHANGED <<otherThanNode, tables>>

\* One iteration of "foreach (const FBXNode& object, child.children)".
ReadObjectNode(object) ==
    /\ nodePc = "Objects"
    /\ nodesRead < MaxNodes
    /\ node' = object
    /\ nodesRead' = nodesRead + 1
    /\ tables' = ReadObject(tables, object)
    /\ UNCHANGED <<otherThanNode, nodePc>>

\* One iteration of "foreach (const FBXNode& connection, child.children)".
ReadConnectionNode(connection) ==
    /\ nodePc = "Connections"
    /\ nodesRead < MaxNodes
    /\ node' = connection
    /\ nodesRead' = nodesRead + 1
    /\ tables' = ReadConnection(tables, connection)
    /\ UNCHANGED <<otherThanNode, nodePc>>

\* The iteration for the Objects or the Connections child ends.
LeaveChild ==
    /\ nodePc \in {"Objects", "Connections"}
    /\ nodePc' = "root"
    /\ UNCHANGED <<otherThanNode, tables, node, nodesRead>>

\* The loop over the children of the root node ends.
FinishReading ==
    /\ nodePc = "root"
    /\ nodePc' = "read"
    /\ UNCHANGED <<otherThanNode, tables, node, nodesRead>>

NodeNext ==
    \/ StartReading
    \/ \E child \in RootChildren : ReadRootChild(child)
    \/ \E child \in RootChildren : EnterChild(child)
    \/ \E name \in ObjectNames, id \in {1, 2} : \E kind \in ObjectKinds(name) :
          ReadObjectNode([name |-> name, kind |-> kind, id |-> id])
    \/ \E name \in {"C", "Connect", "Comment"},
          properties \in ConnectionProperties :
          ReadConnectionNode([name |-> name, properties |-> properties])
    \/ LeaveChild
    \/ FinishReading

NodeSpec == PropInit /\ [][NodeNext]_vars

\* ---------------------------------------------------- computing the shapes
\* The points a joint may have collected: points of the plane z = 0 whose
\* coordinates are one unit apart.
ShapePoints == {<<x, y, 0>> : x \in {0, 1}, y \in {0, 1}}

\* The meshes have been read: two joints, each with up to MaxPoints points.
CollectShapeVertices ==
    /\ shapePc = "idle"
    /\ \E first \in SeqsUpTo(ShapePoints, MaxPoints),
          second \in SeqsUpTo(ShapePoints, MaxPoints) :
            /\ shapeVertices' = <<first, second>>
            /\ shapeInfo' = <<NoShape, NoShape>>
    /\ shapeJoint' = 0
    /\ shapePc' = "shapes"
    /\ UNCHANGED otherThanShape

\* One iteration of "for (int i = 0; i < geometry.joints.size(); ++i)".
ComputeShape ==
    /\ shapePc = "shapes"
    /\ shapeJoint < Len(shapeVertices)
    /\ shapeInfo' = [shapeInfo EXCEPT
                        ![shapeJoint + 1] = ShapeOf(shapeVertices[shapeJoint + 1])]
    /\ shapeJoint' = shapeJoint + 1
    /\ UNCHANGED <<otherThanShape, shapeVertices, shapePc>>

\* The loop ends.
FinishShapes ==
    /\ shapePc = "shapes"
    /\ shapeJoint = Len(shapeVertices)
    /\ shapePc' = "done"
    /\ UNCHANGED <<otherThanShape, shapeVertices, shapeInfo, shapeJoint>>

ShapeNext ==
    \/ CollectShapeVertices
    \/ ComputeShape
    \/ FinishShapes

ShapeSpec == PropInit /\ [][ShapeNext]_vars

\* ------------------------------------------------- computing the tangents
\* _createBlendShapeTangents is entered for a blendshape that defines some
\* vertices of the mesh and builds the lookup table.
CreateReverseIndices ==
    /\ tangentPc = "idle"
    /\ \E indices \in SeqsUpTo(MeshIndices, NumVertices) :
        /\ blendShape' = [indices |-> indices]
        /\ reverseIndices' = ReverseIndicesOf(indices, Len(indices))
    /\ accessed' = NotAccessed
    /\ tangentPc' = "tangents"
    /\ UNCHANGED otherThanTangent

\* createTangents calls setTangents for an edge of a quad or a triangle.
SetTangents ==
    /\ tangentPc = "tangents"
    /\ \E firstIndex \in MeshIndices, secondIndex \in MeshIndices :
        accessed' = Accessor(blendShape, reverseIndices, firstIndex, secondIndex)
    /\ UNCHANGED <<otherThanTangent, blendShape, reverseIndices, tangentPc>>

\* createTangents returns.
FinishTangents ==
    /\ tangentPc = "tangents"
    /\ tangentPc' = "done"
    /\ UNCHANGED <<otherThanTangent, blendShape, reverseIndices, accessed>>

TangentNext ==
    \/ CreateReverseIndices
    \/ SetTangents
    \/ FinishTangents

TangentSpec == PropInit /\ [][TangentNext]_vars

\* A model with an embedded mesh and a skin whose cluster is linked to one of
\* the models or to nothing.
BindInit ==
    \E h \in SeqsUpTo(HierEdges, MaxMeshConn), m \in Models :
        \/ \E j \in Models : InitWith(h \o SkinConns(m, j), {m}, {ClusterObj})
        \/ InitWith(h \o UnlinkedSkinConns(m), {m}, {ClusterObj})

BindSpec == BindInit /\ [][MeshNext]_vars

\* ---------------------------------------------- converting one rotation
\* convertRotationToXYZ(rotationOrder, rotation)
ConvertRotation ==
    /\ conversion = NotConverted
    /\ \E rotationOrder \in OrderXYZ..OrderSphericXYZ,
          rotation_ \in QuarterTurns \X QuarterTurns \X QuarterTurns :
        conversion' = [rotationOrder |-> rotationOrder, rotation |-> rotation_,
                       result |-> ConvertedAngles(rotationOrder, rotation_)]
    /\ UNCHANGED otherThanConvert

ConvertSpec == PropInit /\ [][ConvertRotation]_vars

\* A file with one Geometry mesh and a skin of one cluster: either the
\* NumModels Model objects are there, connected as in MeshInit, or the
\* Objects block holds no Model object at all, and the mesh is connected to
\* the scene root or to nothing and its cluster is linked to no model.
NoModels == [m \in {} |-> [parentIndex |-> -1]]

LoneMeshInit ==
    \/ \E h \in SeqsUpTo(HierEdges, MaxMeshConn), j \in Models, o \in Models :
          InitWith(h \o << <<Geo, o>> >> \o SkinConns(Geo, j), {Geo}, {ClusterObj})
    \/ \E h \in SeqsUpTo({<<Geo, Scene>>}, 1), cs \in {<<>>, UnlinkedSkinConns(Geo)} :
          InitFile(h \o cs, {Geo}, IF cs = <<>> THEN {} ELSE {ClusterObj},
                   NoModels, <<>>, NoJointMapping)

LoneMeshSpec == LoneMeshInit /\ [][MeshNext]_vars

\* ------------------------------------------ assigning the blendshapes
\* The connections a file with blendshapes may hold: the shape to its
\* channel, the channel to its BlendShape deformer, the deformer to the
\* Geometry mesh, to a Model (which may or may not have an embedded mesh) or
\* to the scene root.
BlendEdges ==
    {<<ShapeGeo, ChannelObj>>, <<ChannelObj, BlendShapeObj>>,
     <<BlendShapeObj, Geo>>, <<BlendShapeObj, 1>>, <<BlendShapeObj, Scene>>}

\* The top-level nodes have been read: the mesh objects (the Geometry mesh,
\* Model 1 with an embedded Vertices node) are in `meshes`, the Shape
\* objects in `blendshapes`.
ReadBlendFile ==
    /\ assignPc = "idle"
    /\ \E ms \in SUBSET {Geo, 1}, shapes \in SeqsUpTo({ShapeGeo}, 1),
          cs \in SeqsUpTo(BlendEdges, MaxBlendConn) :
        /\ blendFile' = [meshes |-> ms, blendshapes |-> shapes, conns |-> cs]
        /\ extractedMeshes' = ms
    /\ assignPc' = "assign"
    /\ UNCHANGED <<geometryMeshes, otherThanAssign>>

\* "assign the blendshapes to their corresponding meshes": the whole loop.
AssignToMeshes ==
    /\ assignPc = "assign"
    /\ extractedMeshes' = AssignBlendshapes(extractedMeshes, blendFile.conns,
                                            blendFile.blendshapes)
    /\ assignPc' = "meshes"
    /\ UNCHANGED <<blendFile, geometryMeshes, otherThanAssign>>

\* "for (QMap<QString, ExtractedMesh>::iterator it = meshes.begin(); ...":
\* every entry of `meshes` is appended to geometry.meshes.
AppendMeshes ==
    /\ assignPc = "meshes"
    /\ geometryMeshes' = Ascending(extractedMeshes)
    /\ assignPc' = "done"
    /\ UNCHANGED <<blendFile, extractedMeshes, otherThanAssign>>

AssignNext == ReadBlendFile \/ AssignToMeshes \/ AppendMeshes

AssignSpec == PropInit /\ [][AssignNext]_vars

\* ------------------------------------------------- the skeleton joints
\* The top-level nodes have been read and the models ordered: two models,
\* each with up to two NodeAttribute children, most recent connection first.
ReadAttributes ==
    /\ skeletonPc = "idle"
    /\ \E flags \in [NodeAttributes -> TypeStrings],
          children \in [1..2 -> SeqsUpTo(NodeAttributes, 2)] :
        attributes' = [typeFlags |-> flags, children |-> children]
    /\ skeletonPc' = "joints"
    /\ UNCHANGED <<skeletonJoints, hasSkeletonJoints, otherThanSkeleton>>

\* "geometry.hasSkeletonJoints = false;" and one iteration of "foreach
\* (const QString& modelID, modelIDs)", as far as the skeleton flags go.
TestSkeletonJoint ==
    /\ skeletonPc = "joints"
    /\ Len(skeletonJoints) < Len(attributes.children)
    /\ LET joint == SkeletonTest(attributes.typeFlags,
                                 attributes.children[Len(skeletonJoints) + 1])
       IN /\ skeletonJoints' = Append(skeletonJoints, joint)
          /\ hasSkeletonJoints' = (hasSkeletonJoints \/ (joint.assigned /\ joint.value))
    /\ UNCHANGED <<attributes, skeletonPc, otherThanSkeleton>>

\* The loop ends.
FinishSkeletonJoints ==
    /\ skeletonPc = "joints"
    /\ Len(skeletonJoints) = Len(attributes.children)
    /\ skeletonPc' = "done"
    /\ UNCHANGED <<attributes, skeletonJoints, hasSkeletonJoints, otherThanSkeleton>>

SkeletonNext == ReadAttributes \/ TestSkeletonJoint \/ FinishSkeletonJoints

SkeletonSpec == PropInit /\ [][SkeletonNext]_vars

\* --------------------------------------------------- the animation frames
\* The top-level nodes have been read: each curve with up to MaxKeys key
\* values, and up to two ordered models.
ReadCurves ==
    /\ animationPc = <<"idle", 0>>
    /\ \E sizes \in [CurveIDs -> 0..MaxKeys], size \in 0..2 :
        /\ animationCurves' = sizes
        /\ animated' = size
    /\ animationPc' = <<"frames", 0>>
    /\ UNCHANGED <<animationFrames, curveReads, otherThanAnimation>>

\* "for (int i = 0; i < frameCount; i++)": the frames are appended.
AppendFrames ==
    /\ animationPc = <<"frames", 0>>
    /\ animationFrames' = [i \in 1..FrameCount(animationCurves) |-> NewFrame(animated)]
    /\ animationPc' = <<"joint", 0>>
    /\ UNCHANGED <<animationCurves, animated, curveReads, otherThanAnimation>>

\* One iteration of the joints loop, as far as the frames go: the curves
\* connected to the model's rotation and translation are looked up and
\* every frame gets the joint's rotation and translation.
AnimateJoint(rotationCurves, translationCurves) ==
    /\ animationPc \in {<<"joint", j>> : j \in 0..1}
    /\ animationPc[2] < animated
    /\ LET jointIndex == animationPc[2]
           frames == 0..(FrameCount(animationCurves) - 1)
       IN /\ animationFrames' =
                [n \in 1..Len(animationFrames) |->
                    [rotations |->
                        [animationFrames[n].rotations EXCEPT ![jointIndex + 1] =
                            FrameValue(animationCurves, rotationCurves, n - 1)],
                     translations |->
                        [animationFrames[n].translations EXCEPT ![jointIndex + 1] =
                            FrameValue(animationCurves, translationCurves, n - 1)]]]
          /\ curveReads' = curveReads \cup
                UNION {ReadsOf(CurveValues(animationCurves, curves[c]), i) :
                          curves \in {rotationCurves, translationCurves},
                          c \in 1..3, i \in frames}
          /\ animationPc' = <<"joint", jointIndex + 1>>
    /\ UNCHANGED <<animationCurves, animated, otherThanAnimation>>

\* The joints loop ends.
FinishAnimation ==
    /\ animationPc = <<"joint", animated>>
    /\ animationPc' = <<"done", animated>>
    /\ UNCHANGED <<animationCurves, animated, animationFrames, curveReads,
                   otherThanAnimation>>

\* The curves of a rotation or translation: an ID per component, NullID when
\* nothing is connected.  Rotations have no z curve and translations at most
\* an x curve here.
AnimationNext ==
    \/ ReadCurves
    \/ AppendFrames
    \/ \E xRotCurve \in CurveIDs \cup {NullID}, yRotCurve \in CurveIDs \cup {NullID},
          xPosCurve \in CurveIDs \cup {NullID} :
          AnimateJoint(<<xRotCurve, yRotCurve, NullID>>, <<xPosCurve, NullID, NullID>>)
    \/ FinishAnimation

AnimationSpec == PropInit /\ [][AnimationNext]_vars

\* ------------------------------------------------------ the joint indices
\* The names the models of a file may have; two models may share one.
JointNames == {"Hips", "Spine", ""}

\* The models have been ordered: up to NumModels models.
OrderNamedModels ==
    /\ indexPc = "idle"
    /\ \E names \in SeqsUpTo(JointNames, NumModels) : jointNames' = names
    /\ indexPc' = "joints"
    /\ UNCHANGED <<namedJoints, jointIndices, otherThanIndex>>

\* One iteration of the joints loop, as far as the names go:
\* "geometry.joints.append(joint);
\*  geometry.jointIndices.insert(model.name, geometry.joints.size());"
IndexJoint ==
    /\ indexPc = "joints"
    /\ Len(namedJoints) < Len(jointNames)
    /\ LET name == jointNames[Len(namedJoints) + 1]
       IN /\ namedJoints' = Append(namedJoints, name)
          /\ jointIndices' = HashInsert(jointIndices, name, Len(namedJoints'))
    /\ UNCHANGED <<jointNames, indexPc, otherThanIndex>>

\* The joints loop ends.
FinishIndex ==
    /\ indexPc = "joints"
    /\ Len(namedJoints) = Len(jointNames)
    /\ indexPc' = "done"
    /\ UNCHANGED <<jointNames, namedJoints, jointIndices, otherThanIndex>>

IndexNext == OrderNamedModels \/ IndexJoint \/ FinishIndex

IndexSpec == PropInit /\ [][IndexNext]_vars

\* The weights of one mesh bound to NumClusters clusters.
SkinNext ==
    \/ SkipCluster
    \/ \E weight \in 0..MaxWeight : AccumulateCluster(weight)
    \/ NormalizeWeights

SkinSpec == SkinInit /\ [][SkinNext]_vars

\* ------------------------------------------------------------ properties
\* Whether the Connections block holds the connection child -> parent.
Connected(child, parent) == Contains(conns, <<child, parent>>)

\* The models the file records as parents of model m.
ModelParents(m) == {p \in Models : Connected(m, p)}

\* C1: for every index i of geometry.joints, joints[i].parentIndex is -1 or
\* an index strictly less than i, whatever the connection graph (cycles and
\* models with several parents included); the same holds of the parentIndex
\* of the i-th ordered model, from which the joint takes it.
C1_ParentBeforeChild ==
    /\ \A i \in 1..Len(modelIDs) :
          \/ models[modelIDs[i]].parentIndex = -1
          \/ /\ 0 <= models[modelIDs[i]].parentIndex
             /\ models[modelIDs[i]].parentIndex < i - 1
    /\ \A i \in 1..Len(joints) :
          \/ joints[i].parentIndex = -1
          \/ /\ 0 <= joints[i].parentIndex
             /\ joints[i].parentIndex < i - 1

\* A finished extraction of a file in which a model has two parent models
\* and its joint has a parent joint.
C1_Witness ==
    /\ pc = "done"
    /\ \E i \in 1..Len(joints) :
          /\ Cardinality(ModelParents(modelIDs[i])) > 1
          /\ joints[i].parentIndex >= 0

\* QVector without a repeated element.
NoRepeat(v) == \A i, j \in 1..Len(v) : v[i] = v[j] => i = j

RECURSIVE AncestorsFrom(_)
AncestorsFrom(S) ==
    LET T == S \cup UNION {ModelParents(m) : m \in S}
    IN IF T = S THEN S ELSE AncestorsFrom(T)

\* Whether model m lies on a cycle of parent connections.
OnCycle(m) == m \in AncestorsFrom(ModelParents(m))

\* Whether the ordering pass has ended.
Ordered == pc \notin {"prepare", "order", "top", "append"}

\* C3: the model order never holds a model twice and holds nothing but
\* models; once the ordering pass has ended it holds every model that is not
\* part of a cycle, and geometry.joints ends with one joint per ordered model.
C3_EveryModelOnce ==
    /\ NoRepeat(modelIDs)
    /\ Range(modelIDs) \subseteq Models
    /\ Ordered => \A m \in Models : Contains(modelIDs, m) \/ OnCycle(m)
    /\ pc = "done" => Len(joints) = Len(modelIDs)

\* A finished extraction of a file with a model on a cycle and a model off
\* every cycle whose parent is on one.
C3_Witness ==
    /\ pc = "done"
    /\ \E m, n \in Models :
          /\ OnCycle(m)
          /\ ~OnCycle(n)
          /\ Connected(n, m)
          /\ Contains(modelIDs, n)

\* "while (!remainingModels.isEmpty())" run to its end over the prepared
\* maps; it ends by C2.
RECURSIVE OrderLoop(_, _)
OrderLoop(maps, st) ==
    IF st.remainingModels = {} THEN st
    ELSE LET top == getTopModelID(maps.parentMap, st.models,
                                  FirstRemaining(st.remainingModels))
         IN OrderLoop(maps, appendModelIDs(Value(maps.parentMap, top),
                                           maps.childMap, st, TRUE))

\* The model order of the file when the hash table hands out the models in
\* the order `order`.
OrderOf(order) ==
    OrderLoop(PrepareAll([parentMap |-> ParentMapOf(conns),
                          childMap |-> ChildMapOf(conns)],
                         NewModels, clusters, <<>>, order),
              [models |-> NewModels,
               remainingModels |-> Range(order),
               modelIDs |-> <<>>]).modelIDs

\* The hash table handing out the models in ascending order of their IDs.
AscendingOrder == [i \in 1..NumModels |-> i]

\* C4: the joint order of a file is the same whatever the iteration order of
\* the model hash table: the order an extraction reaches is the order reached
\* when the table iterates in ascending order.
C4_OrderIgnoresHashOrder ==
    Ordered => modelIDs = OrderOf(AscendingOrder)

\* The vertices of the multi-cluster mesh.
Vertices == 0..(NumVertices - 1)

\* C5: for every vertex of a multi-cluster mesh the 4 stored 16-bit weights
\* sum to 65535 when the vertex's accumulated weight is above 0, and to 0
\* when no cluster influenced the vertex.
C5_WeightsSumToMax ==
    skinPc = "done" =>
        \A v \in Vertices :
            LET j == v * WEIGHTS_PER_VERTEX
            IN TotalWeight(clusterWeights, j) =
                  IF TotalWeight(weightAccumulators, j) > 0 THEN UINT16_MAX ELSE 0

\* The non-zero influences delivered to vertex v so far, in order of arrival.
DeliveredTo(v) ==
    SelectSeq(delivered, LAMBDA e : v \in newIndices(e.oldIndex) /\ e.weight > 0)

\* How many of the influences delivered to v with weight w are among the 4
\* highest: those left over by the heavier ones.
KeptOf(v, w) ==
    LET reached == {n \in 1..Len(delivered) : v \in newIndices(delivered[n].oldIndex)}
        above == Cardinality({n \in reached : delivered[n].weight > w})
        equal == Cardinality({n \in reached : delivered[n].weight = w})
    IN Min({equal, Max({0, WEIGHTS_PER_VERTEX - above})})

\* The slots of vertex v.
SlotsOf(v) == {v * WEIGHTS_PER_VERTEX + k + 1 : k \in 0..(WEIGHTS_PER_VERTEX - 1)}

\* Whether the influence e, arriving now, finds the 4 slots of v filled and
\* the lowest of them equal to its own weight.
TiesLowest(e, v) ==
    /\ \A n \in SlotsOf(v) : weightAccumulators[n] # 0
    /\ \E n \in SlotsOf(v) : weightAccumulators[n] = e.weight
    /\ \A n \in SlotsOf(v) : weightAccumulators[n] >= e.weight

\* C6: the 4 slots of a vertex hold the 4 highest weights among the
\* influences delivered to it (all of them when fewer than 4 non-zero ones
\* arrived), each slot's cluster index names the cluster that supplied the
\* slot's weight, and a weight equal to the lowest of 4 filled slots leaves the
\* slots as they are.
C6_FourHighestKept ==
    /\ [](\A v \in Vertices :
            /\ \A w \in 1..MaxWeight :
                  Cardinality({n \in SlotsOf(v) : weightAccumulators[n] = w})
                      = KeptOf(v, w)
            /\ \A n \in SlotsOf(v) :
                  weightAccumulators[n] # 0 =>
                      \E m \in 1..Len(delivered) :
                          /\ v \in newIndices(delivered[m].oldIndex)
                          /\ delivered[m].cluster = clusterIndices[n]
                          /\ delivered[m].weight = weightAccumulators[n])
    /\ [][Len(delivered') > Len(delivered) =>
             LET e == delivered'[Len(delivered')]
             IN \A v \in newIndices(e.oldIndex) :
                   TiesLowest(e, v) =>
                       \A n \in SlotsOf(v) :
                           /\ weightAccumulators'[n] = weightAccumulators[n]
                           /\ clusterIndices'[n] = clusterIndices[n]]_vars

\* More than 4 non-zero influences arrived at a vertex; the last one was as
\* heavy as the lowest slot and its cluster is in no slot.
C6_Witness ==
    /\ skinPc = "done"
    /\ \E v \in Vertices :
          LET d == DeliveredTo(v)
          IN /\ Len(d) > WEIGHTS_PER_VERTEX
             /\ \E n \in SlotsOf(v) : weightAccumulators[n] = d[Len(d)].weight
             /\ \A n \in SlotsOf(v) :
                   /\ weightAccumulators[n] >= d[Len(d)].weight
                   /\ clusterIndices[n] # d[Len(d)].cluster
             /\ \E n \in SlotsOf(v) : weightAccumulators[n] > d[Len(d)].weight

\* The model that owns the file's mesh: the model the mesh is embedded in,
\* or what the Geometry object is connected to.
OwningModel ==
    LET mesh == CHOOSE id \in meshes : TRUE
    IN IF mesh \in Models THEN mesh
       ELSE CHOOSE o \in AllIDs : Connected(mesh, o)

\* C7: a mesh with no skin cluster attached gets exactly one cluster, whose
\* jointIndex is the joint index of the mesh's owning model, or 0 when the
\* owning model is not among the ordered models.
C7_RigidBinding ==
    (pc = "done" /\ meshes # {} /\ clusters = {}) =>
        /\ Len(meshClusters) = 1
        /\ meshClusters[1].jointIndex =
              IF \E i \in 1..Len(modelIDs) : modelIDs[i] = OwningModel
              THEN (CHOOSE i \in 1..Len(modelIDs) : modelIDs[i] = OwningModel) - 1
              ELSE 0

\* A mesh without a skin whose owning model is not the first joint.
C7_Witness ==
    /\ pc = "done"
    /\ meshes # {}
    /\ clusters = {}
    /\ OwningModel \in Models
    /\ Len(meshClusters) = 1
    /\ meshClusters[1].jointIndex > 0

\* Whether the file gives model m a deformer child with a cluster child.
HasCluster(m) ==
    \E d \in AllIDs, c \in clusters : Connected(d, m) /\ Connected(c, d)

\* The model linked to the first cluster below model m.
LinkedJoint(m) ==
    Value(ChildMapOf(conns), Head(ClustersBelow(ChildMapOf(conns), clusters, m)))

\* C8: once the pass over the models has run, every model that has a
\* deformer child with a cluster child and whose parent is a model has, as
\* its entry in the child -> parent map, the topmost ancestor model of the
\* cluster's linked joint model.
C8_ReparentedToClusterTop ==
    pc # "prepare" =>
        \A m \in Models :
            (HasCluster(m) /\ Value(ParentMapOf(conns), m) \in Models) =>
                Value(_connectionParentMap, m) =
                    getTopModelID(ParentMapOf(conns), NewModels, LinkedJoint(m))

\* The joint indices from index up along parentIndex: the joint itself, its
\* parent, its parent's parent, ... (it ends by C1).
RECURSIVE AncestorChain(_)
AncestorChain(index) ==
    IF index = -1 THEN <<>>
    ELSE <<index>> \o AncestorChain(joints[index + 1].parentIndex)

\* The positions in a chain of joint indices that hold a free joint.
FreePositions(chain) ==
    {n \in 1..Len(chain) : joints[chain[n] + 1].isFree}

\* C9 (amended): freeLineage is the joint's own index followed by its
\* ancestors in parent order, cut immediately after the last (topmost) free
\* joint of that chain; when no joint of the chain is free, freeLineage is
\* empty.
C9_FreeLineage ==
    pc = "done" => \A i \in 1..Len(joints) :
        LET chain == AncestorChain(i - 1)
            free == FreePositions(chain)
        IN joints[i].freeLineage =
              IF free = {} THEN <<>> ELSE SubSeq(chain, 1, Max(free))

\* C9 as stated: as above, but when no joint of the chain is free,
\* freeLineage holds the joint's own index only.
C9_KeepsSelfWhenNoneFree ==
    pc = "done" => \A i \in 1..Len(joints) :
        LET chain == AncestorChain(i - 1)
            free == FreePositions(chain)
        IN joints[i].freeLineage =
              IF free = {} THEN <<i - 1>> ELSE SubSeq(chain, 1, Max(free))

\* A finished extraction with a joint whose lineage is cut after its free
\* parent, below a grandparent, the joint being free too, and with a joint
\* that has no free joint in its chain.
C9_Witness ==
    /\ pc = "done"
    /\ \E i \in 1..Len(joints) :
          /\ Len(AncestorChain(i - 1)) >= 3
          /\ FreePositions(AncestorChain(i - 1)) = {1, 2}
          /\ Len(joints[i].freeLineage) = 2
    /\ \E i \in 1..Len(joints) :
          /\ FreePositions(AncestorChain(i - 1)) = {}
          /\ joints[i].freeLineage = <<>>

\* Every ID the file records as a parent of model m.
AllParents(m) == {p \in AllIDs : Connected(m, p)}

\* C10 (amended): a joint's parentIndex is -1 or the index of a model the file
\* records as a parent of the joint's model; it is -1 whenever the model has
\* no parent that is a model, and only then when all the model's parents are
\* models and neither the model nor an ancestor lies on a cycle.
C10_ParentIndex ==
    pc = "done" => \A i \in 1..Len(joints) :
        LET m == modelIDs[i]
            parentIndex == joints[i].parentIndex
        IN /\ parentIndex # -1 =>
                 /\ parentIndex \in 0..(Len(modelIDs) - 1)
                 /\ modelIDs[parentIndex + 1] \in ModelParents(m)
           /\ ModelParents(m) = {} => parentIndex = -1
           /\ (/\ parentIndex = -1
               /\ ModelParents(m) # {}
               /\ AllParents(m) \subseteq Models) =>
                    \E a \in AncestorsFrom({m}) : OnCycle(a)

\* C10 as stated: parentIndex is the index of a model recorded as the parent
\* of the joint's model, and it is -1 exactly when the model has no parent
\* that is a model.
C10_MinusOneOnlyWithoutModelParent ==
    pc = "done" => \A i \in 1..Len(joints) :
        LET m == modelIDs[i]
            parentIndex == joints[i].parentIndex
        IN /\ parentIndex # -1 =>
                 /\ parentIndex \in 0..(Len(modelIDs) - 1)
                 /\ modelIDs[parentIndex + 1] \in ModelParents(m)
           /\ parentIndex = -1 <=> ModelParents(m) = {}

\* A finished extraction with a joint under the joint of its model's parent,
\* and a model on a cycle whose joint has no parent.
C10_Witness ==
    /\ pc = "done"
    /\ \E i \in 1..Len(joints) :
          /\ joints[i].parentIndex >= 0
          /\ AllParents(modelIDs[i]) \subseteq Models
    /\ \E i \in 1..Len(joints) :
          /\ OnCycle(modelIDs[i])
          /\ joints[i].parentIndex = -1

\* ------------------------------------------------------------------ C11
\* The special-joint variables of the geometry and the names their branch
\* of the chain tests for.
SpecialJointFields ==
    << "leftEyeJointIndex", "rightEyeJointIndex", "neckJointIndex",
       "rootJointIndex", "leanJointIndex", "headJointIndex",
       "leftHandJointIndex", "rightHandJointIndex", "leftToeJointIndex",
       "rightToeJointIndex" >>
ObjectNamed(names) ==
    \E i \in DOMAIN modelObjects : getName(modelObjects[i].name) \in names
JointIndexRange == -1..(Len(joints) - 1)

\* C11: when extraction has returned, a special-joint slot none of whose
\* names is the name of a Model object has index -1, every special-joint
\* index is -1 or an index into joints, and humanIKJointIndices has 16
\* entries, each -1 when no Model object has the HumanIK name.
C11_AbsentJointIsMinusOne ==
    pc = "done" =>
        /\ \A k \in DOMAIN SpecialJointFields :
              /\ geometry[SpecialJointFields[k]] \in JointIndexRange
              /\ ~ObjectNamed(SpecialJointTests(mapping)[k].names)
                    => geometry[SpecialJointFields[k]] = -1
        /\ Len(geometry.humanIKJointIndices) = 16
        /\ \A i \in DOMAIN geometry.humanIKJointIndices :
              /\ geometry.humanIKJointIndices[i] \in JointIndexRange
              /\ ~ObjectNamed({humanIKJointNames(mapping)[i]})
                    => geometry.humanIKJointIndices[i] = -1

\* A file with a neck and a "Hips" model that is not the first joint: the
\* neck and the HumanIK hips are found, the eyes are not.
C11_Witness ==
    /\ pc = "done"
    /\ geometry.neckJointIndex >= 0
    /\ geometry.leftEyeJointIndex = -1
    /\ geometry.humanIKJointIndices[10] > 0
    /\ geometry.humanIKJointIndices[1] = -1

\* ------------------------------------------------------------------ C12
\* The Model objects whose name is the name the mapping gives for jointRoot.
RootObjects ==
    {i \in DOMAIN modelObjects :
        getName(modelObjects[i].name) = JointName(mapping, "jointRoot")}

\* C12: when extraction has returned for a file in which exactly one Model
\* object has the name the mapping gives for jointRoot,
\* geometry.rootJointIndex is the index in joints of that model.
C12_RootJointIsNamedModel ==
    (pc = "done" /\ Cardinality(RootObjects) = 1) =>
        \A i \in RootObjects :
            geometry.rootJointIndex = IndexOf(modelIDs, modelObjects[i].id)

\* ------------------------------------------------------------------ C13
\* An entry of a Model's Properties node that a branch reads and that has
\* no value at all or fewer values than the value index of its layout.
Malformed(entry) ==
    /\ entry # <<>>
    /\ entry.name = PropertyLayout(entry.subobject).propertyName
    /\ \/ entry.size = 0
       \/ /\ PropertyBranch(entry.childProperty) # 0
          /\ entry.size < PropertyLayout(entry.subobject).index

\* C13: reading a malformed property entry of a Model leaves every transform
\* component as it was (at its default when nothing else set it) and does
\* not abort the extraction.
C13_MalformedKeepsDefault ==
    [][(readPc = "model" /\ readPc' # "objects" /\ Malformed(property'))
          => (readPc' = "model" /\ local' = local)]_propVars

\* ------------------------------------------------------------------ C15
\* A step in which convertRotationToXYZ is called with an unhandled order.
UnhandledCall ==
    /\ readPc = "model"
    /\ unhandled' = unhandled + 1

\* C15: a call of convertRotationToXYZ with an unhandled rotation order
\* returns the angles it was given and logs the warning only if it is the
\* first such call of the run; a run that made such a call has logged the
\* warning once, and a run that made none has not logged it.
C15_WarnsOncePerRun ==
    /\ [](warnings = IF unhandled > 0 THEN 1 ELSE 0)
    /\ [][UnhandledCall =>
             /\ Unhandled(local.rotationOrder)
             /\ local'[PropertyBranches[PropertyBranch(property'.childProperty)].local]
                   = property'.value
             /\ warnings' = IF unhandled = 0 THEN warnings + 1 ELSE warnings]_propVars

\* The second run has met the unhandled order twice and logged it once.
C15_Witness ==
    /\ runs = MaxRuns
    /\ unhandled >= 2
    /\ warnings = 1
    /\ local.rotation = FileVec
    /\ local.rotationOrder = OrderSphericXYZ

\* ------------------------------------------------------------------ C14
\* The names the chain over the children of Objects, and the chain over the
\* children of the root node, test for.
ObjectBranches ==
    {"Geometry", "Model", "Texture", "Video", "Material", "NodeAttribute",
     "Deformer", "AnimationCurve"}
RootBranches == {"FBXHeaderExtension", "GlobalSettings", "Objects", "Connections"}

\* A step that reads a node.
ReadsNode == nodesRead' = nodesRead + 1

\* C14: reading a child of Objects, or a child of the root node, whose name
\* no branch tests for leaves every table, both connection maps and the
\* fields of the geometry as they were.
C14_UnknownNodeChangesNothing ==
    [][(/\ ReadsNode
        /\ \/ nodePc = "Objects" /\ node'.name \notin ObjectBranches
           \/ nodePc = "root" /\ node'.name \notin RootBranches)
          => tables' = tables]_nodeVars

\* A "Pose" object has been read after a Model object.
C14_Witness ==
    /\ nodesRead = MaxNodes
    /\ nodePc = "Objects"
    /\ node.name = "Pose"
    /\ Len(tables.models) = 1

\* ------------------------------------------------------------------ C17
\* The tests of the chain over the role of an OP connection, in the order
\* they are made: the keyword, the string whose presence makes the test
\* fail (<<>> when there is none), whether the role has to equal the
\* keyword rather than contain it, and the role map.
RoleTest(keyword, unless, exact, map) ==
    [keyword |-> keyword, unless |-> unless, exact |-> exact, map |-> map]
RoleTests ==
    << RoleTest(<<"Diffuse", "Factor">>, <<>>, FALSE, "diffuseFactorTextures"),
       RoleTest(<<"diffuse">>, <<"tex_", "global_", "diffuse">>, FALSE, "diffuseTextures"),
       RoleTest(<<"tex_", "color", "_map">>, <<>>, FALSE, "diffuseTextures"),
       RoleTest(<<"transparent", "color">>, <<>>, FALSE, "transparentTextures"),
       RoleTest(<<"transparency", "factor">>, <<>>, FALSE, "transparentTextures"),
       RoleTest(<<"bump">>, <<>>, FALSE, "bumpTextures"),
       RoleTest(<<"normal">>, <<>>, FALSE, "normalTextures"),
       RoleTest(<<"tex_", "normal", "_map">>, <<>>, FALSE, "normalTextures"),
       RoleTest(<<"specular">>, <<"tex_", "global_", "specular">>, FALSE, "specularTextures"),
       RoleTest(<<"reflection">>, <<>>, FALSE, "specularTextures"),
       RoleTest(<<"tex_", "metallic", "_map">>, <<>>, FALSE, "metallicTextures"),
       RoleTest(<<"shininess">>, <<>>, FALSE, "shininessTextures"),
       RoleTest(<<"tex_", "roughness", "_map">>, <<>>, FALSE, "roughnessTextures"),
       RoleTest(<<"emissive">>, <<>>, FALSE, "emissiveTextures"),
       RoleTest(<<"tex_", "emissive", "_map">>, <<>>, FALSE, "emissiveTextures"),
       RoleTest(<<"ambient", "color">>, <<>>, FALSE, "ambientTextures"),
       RoleTest(<<"ambient", "factor">>, <<>>, FALSE, "ambientFactorTextures"),
       RoleTest(<<"tex_", "ao", "_map">>, <<>>, FALSE, "occlusionTextures"),
       RoleTest(<<"lcl rotation">>, <<>>, TRUE, "localRotations"),
       RoleTest(<<"lcl translation">>, <<>>, TRUE, "localTranslations"),
       RoleTest(<<"d|x">>, <<>>, TRUE, "xComponents"),
       RoleTest(<<"d|y">>, <<>>, TRUE, "yComponents"),
       RoleTest(<<"d|z">>, <<>>, TRUE, "zComponents") >>

\* The map of the first test that holds of a lower-cased role, "" when none
\* does; a test is the containment of its keyword, or what the chain tests.
FirstMap(passed) ==
    IF passed = {} THEN "" ELSE RoleTests[Min(passed)].map
MapOfFirstKeyword(type) ==
    FirstMap({k \in DOMAIN RoleTests : ContainsString(type, RoleTests[k].keyword)})
MapOfFirstTest(type) ==
    FirstMap({k \in DOMAIN RoleTests :
                 IF RoleTests[k].exact THEN type = RoleTests[k].keyword
                 ELSE /\ ContainsString(type, RoleTests[k].keyword)
                      /\ RoleTests[k].unless # <<>>
                            => ~ContainsString(type, RoleTests[k].unless)})

\* A step that reads an OP connection.
ReadsOP ==
    /\ ReadsNode
    /\ nodePc = "Connections"
    /\ node'.name \in {"C", "Connect"}
    /\ node'.properties[1] = "OP"

\* The role maps after the step are those before it, with the connection
\* added to the given map if it is one.
RecordedIn(map) ==
    \A m \in RoleMaps :
        tables'[m] = IF m = map
                     THEN Append(tables[m], <<node'.properties[3], node'.properties[2]>>)
                     ELSE tables[m]

\* C17 as stated: an OP connection is recorded in the role map of the first
\* keyword, in the order of the tests, that its lower-cased role contains,
\* and in no other; one whose role contains no keyword is recorded in none.
C17_FirstContainedKeyword ==
    [][ReadsOP => RecordedIn(MapOfFirstKeyword(toLower(node'.properties[4])))]_nodeVars

\* C17, amended: an OP connection is recorded in the role map of the first
\* test, in the order of the tests, that its lower-cased role passes, and in
\* no other; one whose role passes no test is recorded in none.  A test is
\* the containment of a keyword, but "diffuse" and "specular" do not count
\* in a role that contains "tex_global_diffuse" or "tex_global_specular",
\* and the last five keywords have to equal the role.
C17_FirstPassedTest ==
    [][ReadsOP => RecordedIn(MapOfFirstTest(toLower(node'.properties[4])))]_nodeVars

\* An OP connection whose role contains "normal" and then "bump" has been
\* recorded as a bump texture and not as a normal texture.
C17_Witness ==
    /\ nodePc = "Connections"
    /\ node.name = "C"
    /\ node.properties[1] = "OP"
    /\ node.properties[4] = <<"Normal", "Bump">>
    /\ tables.bumpTextures = << <<2, 1>> >>
    /\ tables.normalTextures = <<>>

\* ------------------------------------------------------------------ C16
\* The largest and the smallest projection of joint i's points along
\* direction j, about the joint's avgPoint.
ProjectionsOf(i, j) ==
    {DotOfDifference(cardinalDirections[j], shapeVertices[i][k],
                     shapeInfo[i].avgPoint) : k \in DOMAIN shapeVertices[i]}

\* C16: when the shapes have been computed, a joint with at least one
\* collected point has 14 points and 14 dots: for each of the 7 directions
\* the point at the largest and the point at the smallest projection of the
\* joint's points about their average, with the largest projection and the
\* smallest, negated, as dots; a joint with no point has no points and no
\* dots.
C16_FourteenExtremes ==
    shapePc = "done" =>
        \A i \in DOMAIN shapeVertices :
            IF shapeVertices[i] = <<>>
            THEN shapeInfo[i].points = <<>> /\ shapeInfo[i].dots = <<>>
            ELSE /\ Len(shapeInfo[i].points) = 14
                 /\ Len(shapeInfo[i].dots) = 14
                 /\ \A j \in 1..7 :
                       LET largest == Float(Max(ProjectionsOf(i, j)))
                           smallest == Float(Min(ProjectionsOf(i, j)))
                       IN /\ shapeInfo[i].points[2 * j - 1] =
                                [along |-> j, dot |-> largest]
                          /\ shapeInfo[i].dots[2 * j - 1] = largest
                          /\ shapeInfo[i].points[2 * j] =
                                [along |-> j, dot |-> smallest]
                          /\ shapeInfo[i].dots[2 * j] = Negated(smallest)

\* ------------------------------------------------------------------ C18
\* The models a round appends: what the step adds to modelIDs.
AppendedBy(before, after) == SubSeq(after, Len(before) + 1, Len(after))

\* The models not yet placed that the child map reaches from the IDs of
\* `from` through models not yet placed.
RECURSIVE UnplacedBelow(_, _, _)
UnplacedBelow(from, childMap, remaining) ==
    LET more == from \cup
                (UNION {Range(Values(childMap, id)) : id \in from} \cap remaining)
    IN IF more = from THEN from \cap remaining
       ELSE UnplacedBelow(more, childMap, remaining)

\* The round of the ordering pass that is about to append: the ID it picked
\* is the first one getTopModelID visited.
RoundAppends == pc = "append" /\ pc' = "order"

\* C18 as stated: a round takes the smallest model ID not yet placed and
\* appends exactly its topmost ancestor followed by that ancestor's
\* descendants.
C18_AppendsTopAndDescendants ==
    [][RoundAppends =>
        LET new == AppendedBy(modelIDs, modelIDs')
        IN /\ visitedNodes[1] = Min(remainingModels)
           /\ new # <<>>
           /\ new[1] = topID
           /\ Range(new) =
                UnplacedBelow({topID}, _connectionChildMap, remainingModels)]_vars

\* C18, amended: a round takes the smallest model ID not yet placed, finds
\* its topmost ancestor and appends, without repeats, exactly the models
\* not yet placed that the child map reaches from the ancestor's recorded
\* parent (that parent, when it is itself a model not yet placed, the
\* ancestor, the ancestor's siblings and their descendants), each one after
\* the model it was reached from, and removes them from the remaining set;
\* the picked ID and its ancestor are among them.
C18_AppendsBelowParentOfTop ==
    [][RoundAppends =>
        LET new == AppendedBy(modelIDs, modelIDs')
            parent == Value(_connectionParentMap, topID)
        IN /\ \A id \in remainingModels : visitedNodes[1] <= id
           /\ visitedNodes[1] \in remainingModels
           /\ SubSeq(modelIDs', 1, Len(modelIDs)) = modelIDs
           /\ NoRepeat(new)
           /\ Range(new) =
                UnplacedBelow({parent}, _connectionChildMap, remainingModels)
           /\ remainingModels' = remainingModels \ Range(new)
           /\ {visitedNodes[1], topID} \subseteq Range(new)
           /\ \A k \in DOMAIN new :
                \/ new[k] = parent
                \/ new[k] \in Range(Values(_connectionChildMap, parent))
                \/ \E j \in 1..(k - 1) :
                      new[k] \in Range(Values(_connectionChildMap, new[j]))]_vars

\* A round has placed a sibling of the topmost ancestor before the ancestor.
C18_Witness ==
    /\ pc = "order"
    /\ rounds = 1
    /\ Len(modelIDs) > 1
    /\ modelIDs[1] # topID
    /\ Value(_connectionParentMap, modelIDs[1]) = Value(_connectionParentMap, topID)

\* ------------------------------------------------------------------ C19
\* The blendshape defines mesh vertex v.
Defines(shape, v) == \E i \in DOMAIN shape.indices : shape.indices[i] = v

\* C19: for an edge whose first vertex the blendshape does not define, the
\* accessor returns no tangent to accumulate into; when it returns one, the
\* position, the normal and the tangent are those the blendshape holds for
\* the first vertex, and the second position is the one the blendshape holds
\* for the second vertex if the blendshape defines it and the mesh's
\* position otherwise.
C19_BlendShapeDataOnlyWhereDefined ==
    accessed.firstIndex # -1 =>
        /\ ~Defines(blendShape, accessed.firstIndex) => accessed.tangent = -1
        /\ accessed.tangent # -1 =>
            /\ At(blendShape.indices, accessed.tangent) = accessed.firstIndex
            /\ accessed.vertex0 = <<"blendShape.vertices", accessed.tangent>>
            /\ accessed.normal = <<"blendShape.normals", accessed.tangent>>
            /\ IF Defines(blendShape, accessed.secondIndex)
               THEN /\ accessed.vertex1[1] = "blendShape.vertices"
                    /\ At(blendShape.indices, accessed.vertex1[2]) =
                         accessed.secondIndex
               ELSE accessed.vertex1 = <<"mesh.vertices", accessed.secondIndex>>

\* ------------------------------------------------------------------ C20
\* The clusters of the file that lie below the mesh, and the models the file
\* links to a cluster.
ClustersOfMesh ==
    {c \in clusters : \E m \in meshes, d \in AllIDs : Connected(d, m) /\ Connected(c, d)}
LinkedModels(c) == {m \in Models : Connected(m, c)}

\* C20 as stated: when the mesh has been bound, a joint whose bind transform
\* was found in a cluster is the joint of a model that some cluster is linked
\* to.
C20_OnlyLinkedJointsBound ==
    pc = "done" =>
        \A i \in DOMAIN joints :
            joints[i].bindTransformFoundInCluster =>
                \E c \in clusters : modelIDs[i] \in LinkedModels(c)

\* C20, amended: when the mesh has been bound, a joint's bind transform was
\* found in a cluster exactly when a cluster below the mesh is linked to the
\* joint's model or, for the first joint only, when a cluster below the mesh
\* is linked to no model.
C20_LinkedOrFirstJointBound ==
    pc = "done" =>
        \A i \in DOMAIN joints :
            joints[i].bindTransformFoundInCluster <=>
                \E c \in ClustersOfMesh :
                    \/ modelIDs[i] \in LinkedModels(c)
                    \/ i = 1 /\ LinkedModels(c) = {}

\* A cluster has bound a joint other than the first, and another joint is
\* left unbound.
C20_Witness ==
    /\ pc = "done"
    /\ \E i \in DOMAIN joints : i > 1 /\ joints[i].bindTransformFoundInCluster
    /\ \E i \in DOMAIN joints : ~joints[i].bindTransformFoundInCluster

\* ------------------------------------------------------------------ C21
\* The rotation that turns about the axes in the order of the letters of
\* the rotation order, the first letter first.
InOrder(rotationOrder, r) ==
    LET X == AboutX(r[1])
        Y == AboutY(r[2])
        Z == AboutZ(r[3])
        Then(first, second, third) == Times(third, Times(second, first))
    IN IF rotationOrder = OrderXZY THEN Then(X, Z, Y)
       ELSE IF rotationOrder = OrderYZX THEN Then(Y, Z, X)
       ELSE IF rotationOrder = OrderYXZ THEN Then(Y, X, Z)
       ELSE IF rotationOrder = OrderZXY THEN Then(Z, X, Y)
       ELSE IF rotationOrder = OrderZYX THEN Then(Z, Y, X)
       ELSE Then(X, Y, Z)

RECURSIVE JointsBelow(_)
JointsBelow(found) ==
    LET more == found \cup {i \in DOMAIN joints : joints[i].parentIndex + 1 \in found}
    IN IF more = found THEN found ELSE JointsBelow(more)

\* C22: once the joints are built they are in depth-first pre-order of the
\* parentIndex tree: the joints below a joint are the joints that directly
\* follow it, as many as there are.
C22_DepthFirstPreOrder ==
    pc = "done" =>
        \A j \in DOMAIN joints :
            LET below == JointsBelow({j}) \ {j}
            IN below = (j + 1)..(j + Cardinality(below))

\* A finished extraction in which the first joint has one joint below it
\* and the joint after that one starts another tree.
C22_Witness ==
    /\ pc = "done"
    /\ Len(joints) > 2
    /\ joints[2].parentIndex = 0
    /\ joints[3].parentIndex = -1

\* ------------------------------------------------------------------ C23
\* The property block of a Model has been read to its end.
BlockRead == readPc = "model" /\ readPc' = "objects"

\* C23: when the property block of a Model has been read, every conversion
\* of one of its rotations was made with the rotation order the block's
\* RotationOrder entry gives, whether that entry came before or after the
\* rotation entry.
C23_ConvertedWithOwnOrder ==
    [][BlockRead => ordersUsed \subseteq {local.rotationOrder}]_propVars

\* ------------------------------------------------------------------ C24
\* The limit of an axis in the FBXModel, given what the block's last entry
\* for the flag of the axis and its entry for the limit have left in the
\* locals: `given` tells whether the block has an entry for the limit.
LimitIs(stored, flag, given, degrees, unlimited) ==
    IF ~flag THEN stored = unlimited
    ELSE given => stored = Radians(degrees)

\* C24: when the property block of a Model has been read, in whatever order
\* its entries came, the model's rotationMin (rotationMax) of an axis is the
\* RotationMin (RotationMax) value of the axis in radians when the flag of
\* the axis is true, and -180 (180) degrees in radians, -3.14160 (3.14159)
\* to five places, when it is false or the block has no entry for it.
C24_LimitsFollowFlags ==
    [][BlockRead =>
        LET minGiven == local.rotationMin = FileVec
            maxGiven == local.rotationMax = FileVec
        IN /\ LimitIs(model'.rotationMin[1], local.rotationMinX, minGiven, FileVec[1], -314160)
           /\ LimitIs(model'.rotationMin[2], local.rotationMinY, minGiven, FileVec[2], -314160)
           /\ LimitIs(model'.rotationMin[3], local.rotationMinZ, minGiven, FileVec[3], -314160)
           /\ LimitIs(model'.rotationMax[1], local.rotationMaxX, maxGiven, FileVec[1], 314159)
           /\ LimitIs(model'.rotationMax[2], local.rotationMaxY, maxGiven, FileVec[2], 314159)
           /\ LimitIs(model'.rotationMax[3], local.rotationMaxZ, maxGiven, FileVec[3], 314159)]_propVars

\* A Model has been read whose block gave both limits, set the flag of the
\* minimum of X and cleared or left out the others.
C24_Witness ==
    /\ readPc = "objects"
    /\ local.rotationMin = FileVec
    /\ local.rotationMax = FileVec
    /\ local.rotationMinX
    /\ ~local.rotationMinZ
    /\ model.rotationMin = <<Radians(FileVec[1]), -314160, -314160>>
    /\ model.rotationMax = <<314159, 314159, 314159>>

\* ------------------------------------------------------------------ C25
\* C25: when the mesh has been bound, the jointIndex of each of its clusters
\* is an index into geometry.joints, 0 <= jointIndex < joints.size(), so the
\* accesses geometry.joints[jointIndex] are in range.
C25_ClusterJointIndexInRange ==
    pc = "done" =>
        \A i \in 1..Len(meshClusters) :
            /\ 0 <= meshClusters[i].jointIndex
            /\ meshClusters[i].jointIndex < Len(joints)

\* ------------------------------------------------------------------ C26
\* C26: geometry.meshes holds exactly one mesh per extracted mesh object of
\* the file: assigning the blendshapes adds none, whether or not the parent
\* chain of a blendshape ends at an extracted mesh.
C26_OneMeshPerMeshObject ==
    assignPc = "done" =>
        /\ Range(geometryMeshes) = blendFile.meshes
        /\ Len(geometryMeshes) = Cardinality(blendFile.meshes)

\* ------------------------------------------------------------------ C27
\* The joint's model has a connected NodeAttribute child whose TypeFlags
\* value contains "Skeleton", in any letter case.
HasSkeletonAttribute(joint) ==
    \E i \in 1..Len(attributes.children[joint]) :
        IsSkeletonTypeAnyCase(attributes.typeFlags[attributes.children[joint][i]])

\* C27: geometry.hasSkeletonJoints is true exactly when some joint's model
\* has a connected NodeAttribute child whose TypeFlags value contains
\* "Skeleton" in any letter case, and isSkeletonJoint of such a joint is true.
C27_SkeletonJointsDetected ==
    skeletonPc = "done" =>
        /\ hasSkeletonJoints <=>
              \E joint \in 1..Len(skeletonJoints) : HasSkeletonAttribute(joint)
        /\ \A joint \in 1..Len(skeletonJoints) :
              HasSkeletonAttribute(joint) =>
                  /\ skeletonJoints[joint].assigned
                  /\ skeletonJoints[joint].value

\* ------------------------------------------------------------------ C28
\* C28: an OP connection whose role string contains "DiffuseFactor" is added
\* to diffuseFactorTextures, and diffuseTextures stays as it was.
C28_DiffuseFactorRecorded ==
    [][(ReadsOP /\ ContainsString(node'.properties[4], <<"Diffuse", "Factor">>))
          => /\ tables'.diffuseFactorTextures =
                   Append(tables.diffuseFactorTextures,
                          <<node'.properties[3], node'.properties[2]>>)
             /\ tables'.diffuseTextures = tables.diffuseTextures]_nodeVars

\* ------------------------------------------------------------------ C29
\* C29: the output has max(1, L) animation frames, L being the largest
\* number of key values of an AnimationCurve object; every frame holds one
\* rotation and one translation per joint; and every values.at() call made
\* for the frames had an index below the size of the curve.
C29_FramesPerLongestCurve ==
    /\ animationPc[1] \in {"joint", "done"} =>
        /\ Len(animationFrames) =
              Max({1} \cup {animationCurves[id] : id \in CurveIDs})
        /\ \A n \in 1..Len(animationFrames) :
              /\ Len(animationFrames[n].rotations) = animated
              /\ Len(animationFrames[n].translations) = animated
    /\ \A read \in curveReads : 0 <= read[2] /\ read[2] < read[1]

\* A joint with a curve of two key values has been animated over three
\* frames: the third frame holds the curve's first value again.
C29_Witness ==
    /\ animationPc = <<"done", 2>>
    /\ Len(animationFrames) = 3
    /\ animationCurves[1] = 2
    /\ animationFrames[1].rotations[1][1] = 10
    /\ animationFrames[2].rotations[1][1] = 11
    /\ animationFrames[3].rotations[1][1] = 10
    /\ <<2, 0>> \in curveReads

\* ------------------------------------------------------------------ C30
\* C30: geometry.jointIndices has one entry per name of a joint; its value
\* is the position in geometry.joints, counted from 1, of the last joint
\* with that name, so it lies in 1..joints.size() and is never 0.
C30_JointIndicesOneBased ==
    /\ \A pair \in jointIndices :
          /\ pair[2] \in 1..Len(namedJoints)
          /\ namedJoints[pair[2]] = pair[1]
          /\ \A later \in (pair[2] + 1)..Len(namedJoints) :
                namedJoints[later] # pair[1]
          /\ \A other \in jointIndices : other[1] = pair[1] => other = pair
    /\ \A joint \in 1..Len(namedJoints) :
          \E pair \in jointIndices : pair[1] = namedJoints[joint]

\* Two joints named "Hips" with another joint between them have been
\* indexed: the entry of "Hips" is the position of the second one.
C30_Witness ==
    /\ indexPc = "done"
    /\ namedJoints = <<"Hips", "Spine", "Hips">>
    /\ jointIndices = {<<"Hips", 3>>, <<"Spine", 2>>}

====
